---- MODULE Spec2Model ----
(***************************************************************************)
(* Control core of the ESP32-C3 "barrique" sensor firmware: configuration  *)
(* fetch, mode decision, OTA update and deep-sleep scheduling.             *)
(* Firmware variants v1.1.3 (src/unnamed/part_000), v1.1.2 (first sketch   *)
(* of src/sketch_dec5a8TESTESPC3/sketch_dec5a8TESTESPC3.ino) and v1.0.8    *)
(* (src/unnamed/part_001).                                                 *)
(***************************************************************************)
EXTENDS Integers, Sequences, FiniteSets, TLC

\* ------------------------------------------------------------------------
\* Bounds of the model
\* ------------------------------------------------------------------------
\* number of loop() passes followed in one wake cycle
MaxPasses == 2

\* ------------------------------------------------------------------------
\* Program constants
\* ------------------------------------------------------------------------
DEFAULT_MEASURE_INTERVAL_S == 7 * 24 * 3600
TEST_INTERVAL_MS == 20000
MAINT_INTERVAL_MS == 10000
WIFI_RETRY_INTERVAL_MS == 60000
MIN_SLEEP_MS == 5000
HTTP_CODE_OK == 200

\* ------------------------------------------------------------------------
\* Unsigned machine words.  An unsigned long (32 bits on the ESP32-C3) is a pair
\* of 16-bit limbs, a uint64_t four of them, least significant limb first; the
\* arithmetic keeps the number of limbs, so it wraps as the machine word does.
\* ------------------------------------------------------------------------
Limb == 2 ^ 16

\* the unsigned long of value n, for 0 <= n < 2^31
U32(n) == <<n % Limb, n \div Limb>>

\* (uint64_t) of an unsigned long
U64(w) == w \o <<0, 0>>

\* w * k in the width of w, for a small factor k
RECURSIVE MulCarry(_, _, _)
MulCarry(w, k, carry) ==
  IF w = <<>> THEN <<>>
  ELSE LET p == Head(w) * k + carry
       IN <<p % Limb>> \o MulCarry(Tail(w), k, p \div Limb)

MulW(w, k) == MulCarry(w, k, 0)

\* a + b in the width of a (a and b of the same width)
RECURSIVE AddCarry(_, _, _)
AddCarry(a, b, carry) ==
  IF a = <<>> THEN <<>>
  ELSE LET t == Head(a) + Head(b) + carry
       IN <<t % Limb>> \o AddCarry(Tail(a), Tail(b), t \div Limb)

AddW(a, b) == AddCarry(a, b, 0)

\* a - b in the width of a: the unsigned difference, wrapping below zero
RECURSIVE SubBorrow(_, _, _)
SubBorrow(a, b, borrow) ==
  IF a = <<>> THEN <<>>
  ELSE LET t == Head(a) - Head(b) - borrow
       IN IF t < 0 THEN <<t + Limb>> \o SubBorrow(Tail(a), Tail(b), 1)
          ELSE <<t>> \o SubBorrow(Tail(a), Tail(b), 0)

SubW(a, b) == SubBorrow(a, b, 0)

\* a < b (same width), from the most significant limb down
RECURSIVE LessW(_, _)
LessW(a, b) ==
  IF a = <<>> THEN FALSE
  ELSE LET n == Len(a)
       IN IF a[n] # b[n] THEN a[n] < b[n]
          ELSE LessW(SubSeq(a, 1, n - 1), SubSeq(b, 1, n - 1))

\* intervalS * 1000UL and the like, in unsigned long
MulU32(a, k) == MulW(a, k)
SubU32(a, b) == SubW(a, b)

\* ------------------------------------------------------------------------
\* Arduino String, as a sequence of one-character strings
\* ------------------------------------------------------------------------
DigitChars == <<"0", "1", "2", "3", "4", "5", "6", "7", "8", "9">>

IsDigit(c) == \E i \in 1..10 : DigitChars[i] = c

DigitVal(c) == (CHOOSE i \in 1..10 : DigitChars[i] = c) - 1

\* String::indexOf(ch, from): 0-based index of the first ch at or after from, -1 if none
indexOf(s, ch, from) ==
  LET hits == {i \in 0..(Len(s) - 1) : i >= from /\ s[i + 1] = ch}
  IN IF hits = {} THEN -1 ELSE CHOOSE i \in hits : \A j \in hits : i <= j

\* String::lastIndexOf(ch): 0-based index of the last ch, -1 if none
lastIndexOf(s, ch) ==
  LET hits == {i \in 0..(Len(s) - 1) : s[i + 1] = ch}
  IN IF hits = {} THEN -1 ELSE CHOOSE i \in hits : \A j \in hits : i >= j

\* String::substring(from, to): characters at 0-based positions from .. to-1
substring(s, from, to) ==
  LET t == IF to > Len(s) THEN Len(s) ELSE to
  IN IF from >= t THEN <<>> ELSE SubSeq(s, from + 1, t)

\* String::substring(from): to the end of the string
substringFrom(s, from) == substring(s, from, Len(s))

\* leading run of decimal digits of s, accumulated left to right
RECURSIVE DigitsValue(_, _)
DigitsValue(s, acc) ==
  IF s = <<>> \/ ~IsDigit(Head(s)) THEN acc
  ELSE DigitsValue(Tail(s), acc * 10 + DigitVal(Head(s)))

\* String::toInt(): atol of the buffer, 0 when no number starts the string
toInt(s) ==
  IF s = <<>> THEN 0
  ELSE IF Head(s) = "-" THEN 0 - DigitsValue(Tail(s), 0)
  ELSE DigitsValue(s, 0)

\* ------------------------------------------------------------------------
\* SemVer
\* ------------------------------------------------------------------------
\* faulty variant: a text without dot gives its number to the minor as well
parseSemverNoDefault(v) ==
  LET p1 == indexOf(v, ".", 0)
      p2 == IF p1 >= 0 THEN indexOf(v, ".", p1 + 1) ELSE -1
  IN IF p1 < 0 THEN <<toInt(v), toInt(v), 0>>
     ELSE IF p2 < 0 THEN <<toInt(substring(v, 0, p1)), toInt(substringFrom(v, p1 + 1)), 0>>
     ELSE <<toInt(substring(v, 0, p1)), toInt(substring(v, p1 + 1, p2)),
            toInt(substringFrom(v, p2 + 1))>>

parseSemver(v) ==
  LET p1 == indexOf(v, ".", 0)
      p2 == IF p1 >= 0 THEN indexOf(v, ".", p1 + 1) ELSE -1
  IN IF p1 < 0 THEN <<toInt(v), 0, 0>>
     ELSE IF p2 < 0 THEN <<toInt(substring(v, 0, p1)), toInt(substringFrom(v, p1 + 1)), 0>>
     ELSE <<toInt(substring(v, 0, p1)), toInt(substring(v, p1 + 1, p2)),
            toInt(substringFrom(v, p2 + 1))>>

\* faulty variant: the patch numbers are not compared
compareSemverNoPatch(a, b) ==
  LET pa == parseSemver(a)
      pb == parseSemver(b)
  IN IF pa[1] # pb[1] THEN (IF pa[1] < pb[1] THEN -1 ELSE 1)
     ELSE IF pa[2] # pb[2] THEN (IF pa[2] < pb[2] THEN -1 ELSE 1)
     ELSE 0

compareSemver(a, b) ==
  LET pa == parseSemver(a)
      pb == parseSemver(b)
  IN IF pa[1] # pb[1] THEN (IF pa[1] < pb[1] THEN -1 ELSE 1)
     ELSE IF pa[2] # pb[2] THEN (IF pa[2] < pb[2] THEN -1 ELSE 1)
     ELSE IF pa[3] # pb[3] THEN (IF pa[3] < pb[3] THEN -1 ELSE 1)
     ELSE 0

\* ------------------------------------------------------------------------
\* Firmware variants and their FIRMWARE_VERSION
\* ------------------------------------------------------------------------
Variants == {"v113", "v112", "v108"}

FIRMWARE_VERSION(v) ==
  IF v = "v113" THEN <<"1", ".", "1", ".", "3">>
  ELSE IF v = "v112" THEN <<"1", ".", "1", ".", "2">>
  ELSE <<"1", ".", "0", ".", "8">>

\* ------------------------------------------------------------------------
\* What the servers and the platform can answer (inputs of the operations)
\* ------------------------------------------------------------------------
\* decimal text of a natural number
RECURSIVE FormatNat(_)
FormatNat(n) ==
  IF n < 10 THEN <<DigitChars[n + 1]>>
  ELSE FormatNat(n \div 10) \o <<DigitChars[(n % 10) + 1]>>

\* dotted text of a version given by its components
RECURSIVE FormatVersion(_)
FormatVersion(comps) ==
  IF Len(comps) = 0 THEN <<>>
  ELSE IF Len(comps) = 1 THEN FormatNat(comps[1])
  ELSE FormatNat(comps[1]) \o <<".">> \o FormatVersion(Tail(comps))

\* versions a firmware.json can advertise, by components (one to three of them)
VersionComps ==
  { <<1, 1, 2>>, <<1, 1, 3>>, <<1, 1, 4>>, <<1, 0, 8>>, <<1, 0, 9>>, <<1, 10, 0>>,
    <<0, 9, 9>>, <<2>>, <<1, 1>> }

\* version texts that are no dotted numbers
GarbageVersions == { <<"v", "1", ".", "1", ".", "4">>, <<"1", ".", "x", ".", "9">> }

\* bodies of an HTTP response, as far as the search for '{' ... '}' reads them
PayloadJson == <<"{", "j", "}">>
Payloads == { <<>>, <<"x">>, <<"}", "{">>, <<"{">>, PayloadJson, <<"x", "{", "j", "}", "x">> }

\* member of a JSON object read as bool: absent (or not a bool), true, false
JsonBools == {"absent", "true", "false"}

\* faulty variant: a member that is present is read inverted
JsonBoolInverted(member, fallback) ==
  IF member = "true" THEN FALSE ELSE IF member = "false" THEN TRUE ELSE fallback

\* doc[key] | fallback, for a bool member
JsonBoolOr(member, fallback) ==
  IF member = "true" THEN TRUE ELSE IF member = "false" THEN FALSE ELSE fallback

\* measure_interval_s absent from the object (or not an unsigned long)
Absent == -1

\* doc[key] | fallback, for an unsigned long member
JsonULongOr(member, fallback) == IF member = Absent THEN fallback ELSE member

\* values of measure_interval_s served, in seconds (u32)
IntervalValues == {Absent, 0, 1, 5, 604800, 4294967, 4294968, 536870912}

ConfigDoc(i, m, t) == [interval |-> i, maintenance |-> m, test |-> t]

\* configuration objects served: every pair of flags, and every interval in the
\* modes that read it
ConfigDocs ==
  {ConfigDoc(604800, m, t) : m \in JsonBools, t \in JsonBools}
  \cup {ConfigDoc(i, "false", "false") : i \in IntervalValues}
  \cup {ConfigDoc(i, "false", "absent") : i \in {Absent, 1}}
  \cup {ConfigDoc(i, "false", "true") : i \in {1, 4294968}}
  \cup {ConfigDoc(i, "absent", "false") : i \in {Absent, 1}}
  \cup {ConfigDoc(1, "true", "true")}

NoDoc == ConfigDoc(Absent, "absent", "absent")

\* one answer to the configuration request
CfgAnswer(wifi, connectOk, payload, parseErr, doc) ==
  [wifi |-> wifi, connectOk |-> connectOk, payload |-> payload,
   parseErr |-> parseErr, doc |-> doc]

CfgInputs ==
  {CfgAnswer(TRUE, TRUE, PayloadJson, FALSE, d) : d \in ConfigDocs}
  \cup {CfgAnswer(TRUE, TRUE, p, FALSE, NoDoc) : p \in Payloads}
  \cup {CfgAnswer(FALSE, TRUE, PayloadJson, FALSE, NoDoc),
        CfgAnswer(TRUE, FALSE, PayloadJson, FALSE, NoDoc),
        CfgAnswer(TRUE, TRUE, PayloadJson, TRUE, NoDoc)}

\* one answer to the firmware.json request and to the image download that may follow
OtaAnswer(wifi, connectOk, payload, parseErr, comps, version, url, beginOk, httpCode, size, updBeginOk, streamed, verifyOk) ==
  [wifi |-> wifi, connectOk |-> connectOk, payload |-> payload, parseErr |-> parseErr,
   comps |-> comps, version |-> version, url |-> url, beginOk |-> beginOk,
   httpCode |-> httpCode, size |-> size, updBeginOk |-> updBeginOk,
   streamed |-> streamed, verifyOk |-> verifyOk]

UrlBin == <<"h">>

\* declared content lengths of the image (https.getSize(): -1 when the header is missing)
ImageSizes == {-1, 0, 2, 3}

\* a descriptor advertising the version of components comps, everything else succeeding
OtaGood(comps, size, streamed) ==
  OtaAnswer(TRUE, TRUE, PayloadJson, FALSE, comps, FormatVersion(comps), UrlBin, TRUE,
            HTTP_CODE_OK, size, TRUE, streamed, TRUE)

OtaInputs ==
  {OtaGood(c, 2, 2) : c \in VersionComps}
  \cup {OtaGood(<<1, 1, 4>>, n, n) : n \in ImageSizes}
  \cup {OtaGood(<<1, 1, 4>>, 3, k) : k \in {0, 2, 4}}
  \cup {[OtaGood(<<1, 1, 4>>, 2, 2) EXCEPT !.version = g, !.comps = <<>>] : g \in GarbageVersions}
  \cup {[OtaGood(<<1, 1, 4>>, 2, 2) EXCEPT !.payload = p] :
           p \in {<<>>, <<"}", "{">>, <<"x", "{", "j", "}", "x">>}}
  \cup {[OtaGood(<<1, 1, 4>>, 2, 2) EXCEPT !.httpCode = h] : h \in {404, -1}}
  \cup {[OtaGood(<<1, 1, 4>>, 2, 2) EXCEPT !.wifi = FALSE],
        [OtaGood(<<1, 1, 4>>, 2, 2) EXCEPT !.connectOk = FALSE],
        [OtaGood(<<1, 1, 4>>, 2, 2) EXCEPT !.parseErr = TRUE],
        [OtaGood(<<1, 1, 4>>, 2, 2) EXCEPT !.version = <<>>, !.comps = <<>>],
        [OtaGood(<<1, 1, 4>>, 2, 2) EXCEPT !.url = <<>>],
        [OtaGood(<<1, 1, 4>>, 2, 2) EXCEPT !.beginOk = FALSE],
        [OtaGood(<<1, 1, 4>>, 2, 2) EXCEPT !.updBeginOk = FALSE],
        [OtaGood(<<1, 1, 4>>, 2, 2) EXCEPT !.verifyOk = FALSE],
        [OtaGood(<<1, 1, 4>>, 3, 2) EXCEPT !.verifyOk = FALSE]}

\* ------------------------------------------------------------------------
\* Update (flash write transaction of the platform), as checkForOTAUpdate uses it
\* ------------------------------------------------------------------------
\* Update.writeStream(*stream): bytes taken from the stream, at most the size begun with
UpdateWriteStream(size, streamed) == IF streamed < size THEN streamed ELSE size

\* Update.isFinished(): the whole declared size has been written
UpdateIsFinished(size, written) == written = size

\* Update.end(evenIfRemaining): closes the transaction; the image is verified and
\* made the boot image only when it is complete (or evenIfRemaining) and verifies
UpdateEnd(evenIfRemaining, size, written, verifyOk) ==
  (evenIfRemaining \/ UpdateIsFinished(size, written)) /\ verifyOk

\* ------------------------------------------------------------------------
\* checkForOTAUpdate
\* ------------------------------------------------------------------------
\* what one call did: requests issued, transaction opened and closed, restart
OtaNothing ==
  [result |-> "idle", descriptorRequested |-> FALSE, httpsBegun |-> FALSE,
   getIssued |-> FALSE, httpsEnds |-> 0, updBegins |-> 0, beginSize |-> 0,
   written |-> 0, updEnds |-> 0, finalized |-> FALSE, restart |-> FALSE]

\* start < 0 || end <= start, on the first '{' and the last '}' of the body
JsonNotFound(payload) ==
  LET start == indexOf(payload, "{", 0)
      end == lastIndexOf(payload, "}")
  IN start < 0 \/ end <= start

\* faulty variant: an equal version is downloaded again
RemoteNotOlder(local, remote) == compareSemver(local, remote) <= 0

\* cmp >= 0 returns; the download goes on when the local version compares below
RemoteIsNewer(local, remote) == compareSemver(local, remote) < 0

\* faulty variant: an empty image is taken for a valid one
SizeInvalidIfNegative(contentLength) == contentLength < 0

\* if (contentLength <= 0): the declared length is no size of an image
SizeInvalid(contentLength) == contentLength <= 0

\* written != (size_t)contentLength ends the update
WrittenAll(written, contentLength) == written = contentLength

\* faulty variant: Update.end(true), which accepts a partial image
EndEvenIfRemaining(size, written, verifyOk) == UpdateEnd(TRUE, size, written, verifyOk)

\* the Update.end() of the short-write path (its result is not read)
EndShortWrite(size, written, verifyOk) == UpdateEnd(FALSE, size, written, verifyOk)

\* faulty variant: the result of the verification is not heeded
EndIgnoringVerify(size, written, verifyOk) == UpdateEnd(FALSE, size, written, TRUE)

\* the Update.end() of the complete-write path
EndFullWrite(size, written, verifyOk) == UpdateEnd(FALSE, size, written, verifyOk)

\* faulty variant: the session is left open when Update.begin fails
httpsEndForgotten(path) == IF path = "updbeginfail" THEN 0 ELSE 1

\* https.end() calls on the way out of checkForOTAUpdate, by exit path after https.GET()
httpsEnd(path) == 1

checkForOTAUpdate(local, in) ==
  IF ~in.wifi THEN [OtaNothing EXCEPT !.result = "nowifi"]
  ELSE IF ~in.connectOk THEN [OtaNothing EXCEPT !.result = "connectfail"]
  ELSE
    LET req == [OtaNothing EXCEPT !.descriptorRequested = TRUE] IN
    IF JsonNotFound(in.payload) THEN [req EXCEPT !.result = "nojson"]
    ELSE IF in.parseErr THEN [req EXCEPT !.result = "parseerr"]
    ELSE IF Len(in.version) = 0 \/ Len(in.url) = 0 THEN [req EXCEPT !.result = "missing"]
    ELSE IF ~RemoteIsNewer(local, in.version) THEN [req EXCEPT !.result = "uptodate"]
    ELSE IF ~in.beginOk THEN [req EXCEPT !.result = "beginfail"]
    ELSE
      LET got == [req EXCEPT !.httpsBegun = TRUE, !.getIssued = TRUE] IN
      IF in.httpCode # HTTP_CODE_OK THEN [got EXCEPT !.result = "httperr", !.httpsEnds = httpsEnd("httperr")]
      ELSE IF SizeInvalid(in.size) THEN [got EXCEPT !.result = "badsize", !.httpsEnds = httpsEnd("badsize")]
      ELSE IF ~in.updBeginOk THEN [got EXCEPT !.result = "updbeginfail", !.httpsEnds = httpsEnd("updbeginfail")]
      ELSE
        LET written == UpdateWriteStream(in.size, in.streamed)
            wr == [got EXCEPT !.updBegins = 1, !.beginSize = in.size, !.written = written]
        IN
        IF ~WrittenAll(written, in.size)
        THEN [wr EXCEPT !.result = "short", !.updEnds = 1, !.httpsEnds = httpsEnd("short"),
                        !.finalized = EndShortWrite(in.size, written, in.verifyOk)]
        ELSE
          LET ended == EndFullWrite(in.size, written, in.verifyOk)
              cl == [wr EXCEPT !.updEnds = 1, !.httpsEnds = httpsEnd("written"),
                           !.finalized = ended]
          IN
          IF ~ended THEN [cl EXCEPT !.result = "endfail"]
          ELSE IF ~UpdateIsFinished(in.size, written) THEN [cl EXCEPT !.result = "unfinished"]
          ELSE [cl EXCEPT !.result = "applied", !.restart = TRUE]

\* ------------------------------------------------------------------------
\* applyDefaultConfig / checkConfigUpdate
\* ------------------------------------------------------------------------
\* the three globals measureIntervalMs, maintenanceMode, testMode
Globals(ms, maint, test) ==
  [measureIntervalMs |-> ms, maintenanceMode |-> maint, testMode |-> test]

\* faulty variant: the globals are left as they were
applyDefaultKeep(g) == g

\* faulty variant: the default of v1.0.3, maintenance off
applyDefaultSleepy(g) == Globals(MulU32(U32(DEFAULT_MEASURE_INTERVAL_S), 1000), FALSE, FALSE)

\* v1.1.3 / v1.1.2
applyDefaultConfig(g) == Globals(MulU32(U32(DEFAULT_MEASURE_INTERVAL_S), 1000), TRUE, FALSE)

\* v1.0.8: there is no testMode
applyDefaultConfig108(g) ==
  Globals(MulU32(U32(DEFAULT_MEASURE_INTERVAL_S), 1000), TRUE, g.testMode)

\* faulty variant: a served 0 is kept
IntervalSecondsZeroKept(doc) == JsonULongOr(doc.interval, DEFAULT_MEASURE_INTERVAL_S)

\* measure_interval_s as the code reads it: default when absent, default when 0
IntervalSeconds(doc) ==
  LET intervalS == JsonULongOr(doc.interval, DEFAULT_MEASURE_INTERVAL_S)
  IN IF intervalS = 0 THEN DEFAULT_MEASURE_INTERVAL_S ELSE intervalS

\* measureIntervalMs = intervalS * 1000UL
IntervalMs(doc) == MulU32(U32(IntervalSeconds(doc)), 1000)

\* faulty variant: the defaults are not applied first, so that a failed fetch and a
\* member missing from the object leave the value of an earlier fetch
checkConfigUpdateKeeping(g, in) ==
  IF ~in.wifi THEN [g |-> g, result |-> "nowifi", requested |-> FALSE]
  ELSE IF ~in.connectOk THEN [g |-> g, result |-> "connectfail", requested |-> FALSE]
  ELSE IF JsonNotFound(in.payload) THEN [g |-> g, result |-> "nojson", requested |-> TRUE]
  ELSE IF in.parseErr THEN [g |-> g, result |-> "parseerr", requested |-> TRUE]
  ELSE [g |-> Globals(IntervalMs(in.doc),
                      JsonBoolOr(in.doc.maintenance, g.maintenanceMode),
                      JsonBoolOr(in.doc.test, g.testMode)),
        result |-> "ok", requested |-> TRUE]

\* v1.1.3 / v1.1.2: the globals after the call and how the call ended
checkConfigUpdate(g, in) ==
  LET d == applyDefaultConfig(g) IN
  IF ~in.wifi THEN [g |-> d, result |-> "nowifi", requested |-> FALSE]
  ELSE IF ~in.connectOk THEN [g |-> d, result |-> "connectfail", requested |-> FALSE]
  ELSE IF JsonNotFound(in.payload) THEN [g |-> d, result |-> "nojson", requested |-> TRUE]
  ELSE IF in.parseErr THEN [g |-> d, result |-> "parseerr", requested |-> TRUE]
  ELSE [g |-> Globals(IntervalMs(in.doc),
                      JsonBoolOr(in.doc.maintenance, TRUE),
                      JsonBoolOr(in.doc.test, FALSE)),
        result |-> "ok", requested |-> TRUE]

\* v1.0.8
checkConfigUpdate108(g, in) ==
  LET d == applyDefaultConfig108(g) IN
  IF ~in.wifi THEN [g |-> d, result |-> "nowifi", requested |-> FALSE]
  ELSE IF ~in.connectOk THEN [g |-> d, result |-> "connectfail", requested |-> FALSE]
  ELSE IF JsonNotFound(in.payload) THEN [g |-> d, result |-> "nojson", requested |-> TRUE]
  ELSE IF in.parseErr THEN [g |-> d, result |-> "parseerr", requested |-> TRUE]
  ELSE [g |-> Globals(IntervalMs(in.doc), JsonBoolOr(in.doc.maintenance, TRUE), d.testMode),
        result |-> "ok", requested |-> TRUE]

\* ------------------------------------------------------------------------
\* Deep sleep
\* ------------------------------------------------------------------------
\* faulty variant: no floor
ClampNone(intervalMs) == intervalMs

\* if (intervalMs < 5000UL) intervalMs = 5000UL
ClampInterval(intervalMs) ==
  IF LessW(intervalMs, U32(MIN_SLEEP_MS)) THEN U32(MIN_SLEEP_MS) ELSE intervalMs

\* faulty variant: testMode is not read
RequestedIgnoringTest(test, ms) == ms

\* testMode ? TEST_INTERVAL_MS : measureIntervalMs
RequestedInterval(test, ms) == IF test THEN U32(TEST_INTERVAL_MS) ELSE ms

\* faulty variant: the sleep does not depend on the mode
SleepsAlways(maint) == TRUE

\* if (!maintenanceMode), before each goToDeepSleep
SleepsNow(maint) == ~maint

\* faulty variant: the call returns to its caller, as a light sleep does
AfterSleepReturns(from) == IF from = "setup" THEN "ota" ELSE "check"

\* esp_deep_sleep_start() does not return: the chip is suspended until the timer fires
AfterDeepSleepStart(from) == "asleep"

\* v1.1.3 / v1.1.2 goToDeepSleep: the timer armed, in microseconds (uint64_t)
goToDeepSleep(from, intervalMs) ==
  [fn |-> "goToDeepSleep", from |-> from, requestedMs |-> intervalMs,
   sleepUs |-> MulW(U64(ClampInterval(intervalMs)), 1000)]

\* v1.0.8 maybeDeepSleep, maintenanceMode being false: measureIntervalMs as it is
maybeDeepSleep(from, intervalMs) ==
  [fn |-> "maybeDeepSleep", from |-> from, requestedMs |-> intervalMs,
   sleepUs |-> MulW(U64(intervalMs), 1000)]


\* ------------------------------------------------------------------------
\* Device identity
\* ------------------------------------------------------------------------
\* x ^ y on two limbs
RECURSIVE XorLimb(_, _)
XorLimb(x, y) ==
  IF x = 0 /\ y = 0 THEN 0
  ELSE (((x % 2) + (y % 2)) % 2) + 2 * XorLimb(x \div 2, y \div 2)

\* a ^ b, limb by limb (same width)
XorW(a, b) == [i \in 1..Len(a) |-> XorLimb(a[i], b[i])]

\* (uint32_t)(mac & 0xFFFFFFFFULL) and (uint32_t)((mac >> 32) & 0xFFFFFFFFULL)
Low32(mac) == SubSeq(mac, 1, 2)
High32(mac) == SubSeq(mac, 3, 4)

\* (uint64_t)high << 32
ShiftLeft32(w) == <<0, 0>> \o w

ID_MODULUS == 1000000000

\* (a * c) % 1000000000 for a limb a and c below 10^9, on the decimal groups of c so
\* that no intermediate value leaves the range of the checker's integers
MulMod(a, c) ==
  LET c0 == c % 10000
      c1 == (c \div 10000) % 10000
      c2 == c \div 100000000
      top == ((a * c2) % 10) * 100000000
      mid == ((a * c1) % 100000) * 10000
  IN (((top + mid) % ID_MODULUS) + a * c0) % ID_MODULUS

\* w % 1000000000 on a uint64_t
ModW(w) ==
  LET p1 == 65536
      p2 == MulMod(65536, p1)
      p3 == MulMod(65536, p2)
      s01 == (w[1] + MulMod(w[2], p1)) % ID_MODULUS
      s23 == (MulMod(w[3], p2) + MulMod(w[4], p3)) % ID_MODULUS
  IN (s01 + s23) % ID_MODULUS

\* snprintf "%0<width>u"
RECURSIVE ZeroPad(_, _)
ZeroPad(digits, width) == IF Len(digits) >= width THEN digits ELSE ZeroPad(<<"0">> \o digits, width)

\* faulty variant: the number is not padded with zeros
makeDeviceIdUnpadded(mac) ==
  FormatNat(ModW(XorW(ShiftLeft32(High32(mac)), U64(Low32(mac)))))

makeDeviceId9Digits(mac) ==
  LET low == Low32(mac)
      high == High32(mac)
      mixed == XorW(ShiftLeft32(high), U64(low))
      id9 == ModW(mixed)
  IN ZeroPad(FormatNat(id9), 9)

\* ------------------------------------------------------------------------
\* Wi-Fi and measurement
\* ------------------------------------------------------------------------
MaxWifiTries == 60

\* polls after which the stored credentials give a link (more than 60: not in time)
JoinAfter == {0, 1, 60, 61}

\* faulty variant: the link is polled until it comes up
StillPollingUnbounded(tries, joinAfter) == tries < joinAfter

\* while (WiFi.status() != WL_CONNECTED && tries < 60)
StillPolling(tries, joinAfter) == tries < joinAfter /\ tries < MaxWifiTries

\* the polling loop: value of tries when it ends
RECURSIVE PollLink(_, _)
PollLink(tries, joinAfter) ==
  IF StillPolling(tries, joinAfter) THEN PollLink(tries + 1, joinAfter) ELSE tries

PORTAL_TIMEOUT_S == 180

PortalPrefix == <<"B", "a", "r", "r", "i", "q", "u", "e", "-">>

NoPortal == [opened |-> FALSE, apName |-> <<>>, timeout |-> 0]

\* setupWiFi: polls made, the portal opened (if any), link at the end
setupWiFi(joinAfter, portalOk, id) ==
  LET tries == PollLink(0, joinAfter)
      joined == tries >= joinAfter
  IN [fn |-> "setupWiFi", joinAfter |-> joinAfter, tries |-> tries,
      portal |-> IF joined THEN NoPortal
                 ELSE [opened |-> TRUE, apName |-> PortalPrefix \o id,
                       timeout |-> PORTAL_TIMEOUT_S],
      connected |-> joined \/ portalOk]

\* faulty variant: a reconnection is started at every call made while disconnected
retryWiFiIfNeededEveryCall(wifi, now, lastRetry) ==
  IF wifi THEN [last |-> lastRetry, started |-> FALSE]
  ELSE [last |-> now, started |-> TRUE]

\* retryWiFiIfNeeded: the value of lastWifiRetryMs after the call, and whether a
\* reconnection was started
retryWiFiIfNeeded(wifi, now, lastRetry) ==
  IF wifi THEN [last |-> lastRetry, started |-> FALSE]
  ELSE IF LessW(SubU32(now, lastRetry), U32(WIFI_RETRY_INTERVAL_MS))
       THEN [last |-> lastRetry, started |-> FALSE]
       ELSE [last |-> now, started |-> TRUE]

\* HTTP status of the POST (negative: transport error of HTTPClient)
PostCodes == {200, 201, 500, -1}

PostInputs ==
  {[wifi |-> TRUE, beginOk |-> TRUE, code |-> c] : c \in PostCodes}
  \cup {[wifi |-> FALSE, beginOk |-> TRUE, code |-> 200],
        [wifi |-> TRUE, beginOk |-> FALSE, code |-> 200]}

\* faulty variant: the request is made without looking at the link
postMeasurementNoLinkTest(in) ==
  IF ~in.beginOk
  THEN [fn |-> "postMeasurement", in |-> in, begins |-> 1, posts |-> 0, ok |-> FALSE]
  ELSE [fn |-> "postMeasurement", in |-> in, begins |-> 1, posts |-> 1,
        ok |-> (in.code = 200 \/ in.code = 201)]

\* faulty variant: 201 is not taken for a success
postMeasurementOnly200(in) ==
  IF ~in.wifi
  THEN [fn |-> "postMeasurement", in |-> in, begins |-> 0, posts |-> 0, ok |-> FALSE]
  ELSE IF ~in.beginOk
  THEN [fn |-> "postMeasurement", in |-> in, begins |-> 1, posts |-> 0, ok |-> FALSE]
  ELSE [fn |-> "postMeasurement", in |-> in, begins |-> 1, posts |-> 1,
        ok |-> (in.code = 200)]

\* what one call did: the answers it got, https.begin calls, POSTs issued, value returned
postMeasurement(in) ==
  IF ~in.wifi
  THEN [fn |-> "postMeasurement", in |-> in, begins |-> 0, posts |-> 0, ok |-> FALSE]
  ELSE IF ~in.beginOk
  THEN [fn |-> "postMeasurement", in |-> in, begins |-> 1, posts |-> 0, ok |-> FALSE]
  ELSE [fn |-> "postMeasurement", in |-> in, begins |-> 1, posts |-> 1,
        ok |-> (in.code = 200 \/ in.code = 201)]

\* faulty variant: a report that failed is sent a second time
doOneMeasurementRetry(in) ==
  LET r == postMeasurement(in)
  IN IF r.ok THEN r ELSE [r EXCEPT !.posts = r.posts + postMeasurement(in).posts]

\* doOneMeasurement: the ADC is read and postMeasurement called once, its result
\* not read (v1.0.8 does the same inline in loop())
doOneMeasurement(in) == postMeasurement(in)

\* ------------------------------------------------------------------------
\* State
\* ------------------------------------------------------------------------
VARIABLES
  variant,            \* which firmware runs
  pc,                 \* position in setup() / loop()
  measureIntervalMs,
  maintenanceMode,
  testMode,
  lastMeasureMs,
  lastWifiRetryMs,
  clock,              \* millis()
  passes,             \* loop() passes of this wake cycle
  cfg,                \* the latest checkConfigUpdate of this wake cycle: answer and outcome
  last,               \* the call made by the latest step, with its answer and effects
  trace,              \* the calls setup() has made so far in this wake cycle, in order
  postsSinceFetch,    \* POSTs issued since the latest checkConfigUpdate (since boot before it)
  efuseMac,           \* ESP.getEfuseMac(): the 64-bit hardware id of the chip
  deviceId,           \* String deviceId
  retriedThisCycle,   \* retryWiFiIfNeeded has been executed in this wake cycle
  linkSeen,           \* WiFi.status() has been WL_CONNECTED at some test of this wake cycle
  bootImage           \* version text of the image the bootloader starts next

vars == <<variant, pc, measureIntervalMs, maintenanceMode, testMode, lastMeasureMs,
          lastWifiRetryMs, clock, passes, cfg, last, trace, postsSinceFetch,
          efuseMac, deviceId, retriedThisCycle, linkSeen, bootImage>>

\* a hardware id: 0x0000A1B2C3D4E5F6, least significant limb first
DefaultMac == <<58870, 50132, 41394, 0>>

NoCfg == [result |-> "none", requested |-> FALSE, doc |-> NoDoc]

\* time since boot at the end of setup(), and time one loop() pass takes (delay(50) at least)
BootMillis == {1000}
PassMillis == {50, 10000, 60000}

\* globals as the C++ initialisers leave them at every start from the entry point
\* (v1.0.8 has no testMode: the variable stays FALSE there)
InitGlobals(v) == Globals(MulU32(U32(DEFAULT_MEASURE_INTERVAL_S), 1000), TRUE, FALSE)

Init ==
  /\ variant \in Variants
  /\ pc = "entry"
  /\ measureIntervalMs = InitGlobals(variant).measureIntervalMs
  /\ maintenanceMode = InitGlobals(variant).maintenanceMode
  /\ testMode = InitGlobals(variant).testMode
  /\ lastMeasureMs = U32(0)
  /\ lastWifiRetryMs = U32(0)
  /\ clock = U32(0)
  /\ passes = 0
  /\ cfg = NoCfg
  /\ last = [fn |-> "boot"]
  /\ trace = <<>>
  /\ postsSinceFetch = 0
  /\ efuseMac = DefaultMac
  /\ retriedThisCycle = FALSE
  /\ linkSeen = FALSE
  /\ deviceId = <<>>
  /\ bootImage = FIRMWARE_VERSION(variant)

IsV108 == variant = "v108"

\* ------------------------------------------------------------------------
\* setup()
\* ------------------------------------------------------------------------
\* faulty variant: the configuration is fetched right after the Wi-Fi connection
AfterWiFiConfig(v108) == "config"

\* what setup() calls after setupWiFi(): doOneMeasurement(), checkConfigUpdate() in v1.0.8
AfterWiFi(v108) == IF v108 THEN "config" ELSE "measure"

\* Serial.begin ... analogReadResolution: identity and ADC set up, no network yet
SetupBegin ==
  /\ pc = "entry"
  /\ pc' = "wifi"
  /\ last' = [fn |-> "setupBegin"]
  /\ trace' = Append(trace, "makeDeviceId9Digits")
  /\ deviceId' = makeDeviceId9Digits(efuseMac)
  /\ UNCHANGED <<variant, efuseMac, linkSeen, retriedThisCycle, postsSinceFetch, measureIntervalMs, maintenanceMode, testMode, lastMeasureMs,
                 lastWifiRetryMs, clock, passes, cfg, bootImage>>

SetupWiFi ==
  /\ pc = "wifi"
  /\ \E j \in JoinAfter, portalOk \in BOOLEAN : last' = setupWiFi(j, portalOk, deviceId)
  /\ linkSeen' = (linkSeen \/ last'.connected)
  /\ pc' = AfterWiFi(IsV108)
  /\ trace' = Append(trace, "setupWiFi")
  /\ UNCHANGED <<variant, efuseMac, retriedThisCycle, deviceId, postsSinceFetch, measureIntervalMs, maintenanceMode, testMode, lastMeasureMs,
                 lastWifiRetryMs, clock, passes, cfg, bootImage>>

\* doOneMeasurement (v1.1.3 / v1.1.2)
SetupMeasure ==
  /\ pc = "measure"
  /\ \E in \in PostInputs :
       /\ last' = doOneMeasurement(in)
       /\ postsSinceFetch' = postsSinceFetch + last'.posts
       /\ linkSeen' = (linkSeen \/ in.wifi)
  /\ pc' = "config"
  /\ trace' = Append(trace, "doOneMeasurement")
  /\ UNCHANGED <<variant, efuseMac, retriedThisCycle, deviceId, measureIntervalMs, maintenanceMode, testMode, lastMeasureMs,
                 lastWifiRetryMs, clock, passes, cfg, bootImage>>

\* checkConfigUpdate of the running variant
ConfigStep(next) ==
  \E in \in CfgInputs :
    LET r == IF IsV108
             THEN checkConfigUpdate108(Globals(measureIntervalMs, maintenanceMode, testMode), in)
             ELSE checkConfigUpdate(Globals(measureIntervalMs, maintenanceMode, testMode), in)
    IN /\ measureIntervalMs' = r.g.measureIntervalMs
       /\ maintenanceMode' = r.g.maintenanceMode
       /\ testMode' = r.g.testMode
       /\ cfg' = [result |-> r.result, requested |-> r.requested,
                  doc |-> IF r.result = "ok" THEN in.doc ELSE NoDoc]
       /\ last' = [fn |-> "checkConfigUpdate", wifi |-> in.wifi,
                   before |-> Globals(measureIntervalMs, maintenanceMode, testMode)]
       /\ postsSinceFetch' = 0
       /\ pc' = next
       /\ linkSeen' = (linkSeen \/ in.wifi)

SetupConfig ==
  /\ pc = "config"
  /\ ConfigStep(IF IsV108 THEN "ota" ELSE "decide")
  /\ trace' = Append(trace, "checkConfigUpdate")
  /\ UNCHANGED <<variant, efuseMac, retriedThisCycle, deviceId, lastMeasureMs, lastWifiRetryMs, clock, passes, bootImage>>

\* if (!maintenanceMode) goToDeepSleep(label, intervalMs): never returns
SetupSleep ==
  /\ pc = "decide"
  /\ SleepsNow(maintenanceMode)
  /\ last' = goToDeepSleep("setup", RequestedInterval(testMode, measureIntervalMs))
  /\ pc' = AfterDeepSleepStart("setup")
  /\ trace' = Append(trace, "goToDeepSleep")
  /\ UNCHANGED <<variant, efuseMac, linkSeen, retriedThisCycle, deviceId, postsSinceFetch, measureIntervalMs, maintenanceMode, testMode, lastMeasureMs,
                 lastWifiRetryMs, clock, passes, cfg, bootImage>>

\* checkForOTAUpdate of the running variant; ESP.restart() ends the program
OtaStep(from, next) ==
  \E in \in OtaInputs :
    LET out == checkForOTAUpdate(FIRMWARE_VERSION(variant), in)
    IN /\ last' = [fn |-> "checkForOTAUpdate", from |-> from, in |-> in, out |-> out]
       /\ bootImage' = IF out.finalized THEN in.version ELSE bootImage
       /\ pc' = IF out.restart THEN "restarted" ELSE next
       /\ linkSeen' = (linkSeen \/ in.wifi)

SetupOta ==
  /\ \/ pc = "decide" /\ ~SleepsNow(maintenanceMode)
     \/ pc = "ota"
  /\ OtaStep("setup", "timers")
  /\ trace' = Append(trace, "checkForOTAUpdate")
  /\ UNCHANGED <<variant, efuseMac, retriedThisCycle, deviceId, postsSinceFetch, measureIntervalMs, maintenanceMode, testMode, lastMeasureMs,
                 lastWifiRetryMs, clock, passes, cfg>>

\* now = millis(); lastMeasureMs = now; lastWifiRetryMs = now
SetupTimers ==
  /\ pc = "timers"
  /\ \E now \in BootMillis :
       /\ clock' = U32(now)
       /\ lastMeasureMs' = U32(now)
       /\ lastWifiRetryMs' = U32(now)
  /\ last' = [fn |-> "setupTimers"]
  /\ pc' = "loop"
  /\ UNCHANGED <<variant, efuseMac, linkSeen, retriedThisCycle, deviceId, postsSinceFetch, trace, measureIntervalMs, maintenanceMode, testMode, passes, cfg,
                 bootImage>>

\* ------------------------------------------------------------------------
\* loop()
\* ------------------------------------------------------------------------
\* faulty variant: the pass is abandoned after the update check
AfterLoopOtaHalt(v108) == "halted"

\* what loop() does after checkForOTAUpdate(): delay(50), maybeDeepSleep() in v1.0.8
AfterLoopOta(v108) == IF v108 THEN "maybe_sleep" ELSE "delay"

\* v1.1.3 / v1.1.2: if (!maintenanceMode) goToDeepSleep(label, intervalMs)
LoopSleep ==
  /\ pc = "loop"
  /\ ~IsV108
  /\ SleepsNow(maintenanceMode)
  /\ last' = goToDeepSleep("loop", RequestedInterval(testMode, measureIntervalMs))
  /\ pc' = AfterDeepSleepStart("loop")
  /\ UNCHANGED <<variant, efuseMac, linkSeen, retriedThisCycle, deviceId, postsSinceFetch, trace, measureIntervalMs, maintenanceMode, testMode, lastMeasureMs,
                 lastWifiRetryMs, clock, passes, cfg, bootImage>>

LoopRetry ==
  /\ pc = "loop"
  /\ IsV108 \/ ~SleepsNow(maintenanceMode)
  /\ \E wifi \in BOOLEAN :
       LET r == retryWiFiIfNeeded(wifi, clock, lastWifiRetryMs)
       IN /\ lastWifiRetryMs' = r.last
          /\ last' = [fn |-> "retryWiFiIfNeeded", wifi |-> wifi, started |-> r.started]
  /\ retriedThisCycle' = TRUE
  /\ linkSeen' = (linkSeen \/ last'.wifi)
  /\ pc' = "check"
  /\ UNCHANGED <<variant, efuseMac, deviceId, postsSinceFetch, trace, measureIntervalMs, maintenanceMode, testMode, lastMeasureMs,
                 clock, passes, cfg, bootImage>>

\* the period of the loop body: MAINT_INTERVAL_MS, measureIntervalMs in v1.0.8
LoopPeriod == IF IsV108 THEN measureIntervalMs ELSE U32(MAINT_INTERVAL_MS)

\* faulty variant: the deadline lastMs + period is compared with now
DueByDeadline(now, lastMs, period) == ~LessW(now, AddW(lastMs, period))

\* now - lastMeasureMs >= period, in unsigned long
Due(now, lastMs, period) == ~LessW(SubU32(now, lastMs), period)

\* now = millis(); if (now - lastMeasureMs >= ...) { lastMeasureMs = now; ...
LoopCheck ==
  /\ pc = "check"
  /\ IF Due(clock, lastMeasureMs, LoopPeriod)
     THEN lastMeasureMs' = clock /\ pc' = "loop_measure"
     ELSE lastMeasureMs' = lastMeasureMs /\ pc' = "delay"
  /\ last' = [fn |-> "loopCheck", due |-> Due(clock, lastMeasureMs, LoopPeriod)]
  /\ UNCHANGED <<variant, efuseMac, linkSeen, retriedThisCycle, deviceId, postsSinceFetch, trace, measureIntervalMs, maintenanceMode, testMode, lastWifiRetryMs,
                 clock, passes, cfg, bootImage>>

\* doOneMeasurement (the inline ADC read and postMeasurement in v1.0.8)
LoopMeasure ==
  /\ pc = "loop_measure"
  /\ \E in \in PostInputs :
       /\ last' = doOneMeasurement(in)
       /\ postsSinceFetch' = postsSinceFetch + last'.posts
       /\ linkSeen' = (linkSeen \/ in.wifi)
  /\ pc' = "loop_config"
  /\ UNCHANGED <<variant, efuseMac, retriedThisCycle, deviceId, trace, measureIntervalMs, maintenanceMode, testMode, lastMeasureMs,
                 lastWifiRetryMs, clock, passes, cfg, bootImage>>

LoopConfig ==
  /\ pc = "loop_config"
  /\ ConfigStep("loop_ota")
  /\ UNCHANGED <<variant, efuseMac, retriedThisCycle, deviceId, trace, lastMeasureMs, lastWifiRetryMs, clock, passes, bootImage>>

LoopOta ==
  /\ pc = "loop_ota"
  /\ OtaStep("loop", AfterLoopOta(IsV108))
  /\ UNCHANGED <<variant, efuseMac, retriedThisCycle, deviceId, postsSinceFetch, trace, measureIntervalMs, maintenanceMode, testMode, lastMeasureMs,
                 lastWifiRetryMs, clock, passes, cfg>>

\* v1.0.8 maybeDeepSleep(): returns when maintenanceMode, sleeps otherwise
LoopMaybeSleep ==
  /\ pc = "maybe_sleep"
  /\ IF maintenanceMode
     THEN last' = [fn |-> "maybeDeepSleepSkipped"] /\ pc' = "delay"
     ELSE last' = maybeDeepSleep("loop", measureIntervalMs) /\ pc' = "asleep"
  /\ UNCHANGED <<variant, efuseMac, linkSeen, retriedThisCycle, deviceId, postsSinceFetch, trace, measureIntervalMs, maintenanceMode, testMode, lastMeasureMs,
                 lastWifiRetryMs, clock, passes, cfg, bootImage>>

\* delay(50), and the time the pass took
LoopDelay ==
  /\ pc = "delay"
  /\ passes < MaxPasses
  /\ \E d \in PassMillis : clock' = AddW(clock, U32(d))
  /\ passes' = passes + 1
  /\ last' = [fn |-> "delay"]
  /\ pc' = "loop"
  /\ UNCHANGED <<variant, efuseMac, linkSeen, retriedThisCycle, deviceId, postsSinceFetch, trace, measureIntervalMs, maintenanceMode, testMode, lastMeasureMs,
                 lastWifiRetryMs, cfg, bootImage>>

\* the timer wakes the chip: execution restarts from the entry point, RAM reinitialised
Wake ==
  /\ pc = "asleep"
  /\ pc' = "entry"
  /\ measureIntervalMs' = InitGlobals(variant).measureIntervalMs
  /\ maintenanceMode' = InitGlobals(variant).maintenanceMode
  /\ testMode' = InitGlobals(variant).testMode
  /\ lastMeasureMs' = U32(0)
  /\ lastWifiRetryMs' = U32(0)
  /\ clock' = U32(0)
  /\ passes' = 0
  /\ cfg' = NoCfg
  /\ last' = [fn |-> "boot"]
  /\ trace' = <<>>
  /\ postsSinceFetch' = 0
  /\ deviceId' = <<>>
  /\ retriedThisCycle' = FALSE
  /\ linkSeen' = FALSE
  /\ UNCHANGED <<variant, efuseMac, bootImage>>

Next ==
  \/ SetupBegin
  \/ SetupWiFi
  \/ SetupMeasure
  \/ SetupConfig
  \/ SetupSleep
  \/ SetupOta
  \/ SetupTimers
  \/ LoopSleep
  \/ LoopRetry
  \/ LoopCheck
  \/ LoopMeasure
  \/ LoopConfig
  \/ LoopOta
  \/ LoopMaybeSleep
  \/ LoopDelay
  \/ Wake

Spec == Init /\ [][Next]_vars

\* v1.1.3 alone
Init113 == Init /\ variant = "v113"

Next113 ==
  \/ SetupBegin
  \/ SetupWiFi
  \/ SetupMeasure
  \/ SetupConfig
  \/ SetupSleep
  \/ SetupOta
  \/ SetupTimers
  \/ LoopSleep
  \/ LoopRetry
  \/ LoopCheck
  \/ LoopMeasure
  \/ LoopConfig
  \/ LoopOta
  \/ LoopDelay
  \/ Wake

\* setup() and loop() run on one task: while a step can be taken, the next statement
\* is executed (every platform call returns)
FairSpec == Init113 /\ [][Next113]_vars /\ WF_vars(Next113)

\* ------------------------------------------------------------------------
\* v1.1.3 kept in the maintenance loop for as long as the server asks for it
\* ------------------------------------------------------------------------
\* the end of a setup() that found no link: defaults applied, timers set
InitMaintenance ==
  /\ variant = "v113"
  /\ pc = "loop"
  /\ measureIntervalMs = InitGlobals(variant).measureIntervalMs
  /\ maintenanceMode = TRUE
  /\ testMode = FALSE
  /\ \E now \in BootMillis :
       /\ clock = U32(now)
       /\ lastMeasureMs = U32(now)
       /\ lastWifiRetryMs = U32(now)
  /\ passes = 0
  /\ cfg = [result |-> "nowifi", requested |-> FALSE, doc |-> NoDoc]
  /\ last = [fn |-> "setupTimers"]
  /\ trace = <<"makeDeviceId9Digits", "setupWiFi", "doOneMeasurement", "checkConfigUpdate",
               "checkForOTAUpdate">>
  /\ postsSinceFetch = 0
  /\ efuseMac = DefaultMac
  /\ retriedThisCycle = FALSE
  /\ linkSeen = FALSE
  /\ deviceId = makeDeviceId9Digits(efuseMac)
  /\ bootImage = FIRMWARE_VERSION(variant)

\* a wait of 2^30 ms between two looks at the device: millis() returns to the same
\* value after four of them
LongWait == <<0, 16384>>

\* loop() is called again and again over the wait, the passes not counted
LoopLongWait ==
  /\ pc = "delay"
  /\ clock' = AddW(clock, LongWait)
  /\ last' = [fn |-> "delay"]
  /\ pc' = "loop"
  /\ UNCHANGED <<variant, efuseMac, linkSeen, retriedThisCycle, deviceId, postsSinceFetch, trace,
                 measureIntervalMs, maintenanceMode, testMode, lastMeasureMs, lastWifiRetryMs,
                 passes, cfg, bootImage>>

NextForever ==
  \/ LoopSleep
  \/ LoopRetry
  \/ LoopCheck
  \/ LoopMeasure
  \/ LoopConfig
  \/ LoopOta
  \/ LoopLongWait

\* loop() is called again by the Arduino task each time it returns, and every call
\* it makes returns
FairForever == InitMaintenance /\ [][NextForever]_vars /\ WF_vars(NextForever)

\* ------------------------------------------------------------------------
\* v1.1.3 on chips with different hardware ids
\* ------------------------------------------------------------------------
\* 0x0000A1B2C3D4E5F6, 2^64 - 1, 7 and 10^9, least significant limb first
HardwareIds ==
  {DefaultMac, <<65535, 65535, 65535, 65535>>, <<7, 0, 0, 0>>, <<51712, 15258, 0, 0>>}

InitIdentity ==
  /\ variant = "v113"
  /\ pc = "entry"
  /\ measureIntervalMs = InitGlobals(variant).measureIntervalMs
  /\ maintenanceMode = InitGlobals(variant).maintenanceMode
  /\ testMode = InitGlobals(variant).testMode
  /\ lastMeasureMs = U32(0)
  /\ lastWifiRetryMs = U32(0)
  /\ clock = U32(0)
  /\ passes = 0
  /\ cfg = NoCfg
  /\ last = [fn |-> "boot"]
  /\ trace = <<>>
  /\ postsSinceFetch = 0
  /\ efuseMac \in HardwareIds
  /\ retriedThisCycle = FALSE
  /\ linkSeen = FALSE
  /\ deviceId = <<>>
  /\ bootImage = FIRMWARE_VERSION(variant)

SpecIdentity == InitIdentity /\ [][Next113]_vars

\* ------------------------------------------------------------------------
\* Firmware v1.0.3 (no deep sleep; the configuration is kept when a fetch fails)
\* ------------------------------------------------------------------------
FW_VERSION == <<"1", ".", "0", ".", "3">>

\* measureIntervalMs = TEST_INTERVAL_MS, maintenanceMode = false
InitGlobals103 == Globals(U32(5000), FALSE, FALSE)

\* HTTP status of the GET of version.json and of get_config.php
JsonCodes == {200, 404, -1}

\* answers to the two requests of checkForOTAUpdate: https.begin on version.json is
\* connectOk, the status of its GET is jsonCode
Ota103Inputs ==
  {in @@ [jsonCode |-> 200] : in \in OtaInputs}
  \cup {OtaGood(<<1, 0, 2>>, 2, 2) @@ [jsonCode |-> 200],
        OtaGood(<<1, 0, 3>>, 2, 2) @@ [jsonCode |-> 200],
        OtaGood(<<1, 0, 4>>, 2, 2) @@ [jsonCode |-> 200]}
  \cup {OtaGood(<<1, 0, 4>>, 2, 2) @@ [jsonCode |-> c] : c \in JsonCodes}

\* String(newVersion) == String(FW_VERSION)
SameVersion(remote, local) == remote = local

checkForOTAUpdate103(in) ==
  IF ~in.wifi THEN [OtaNothing EXCEPT !.result = "nowifi"]
  ELSE IF ~in.connectOk THEN [OtaNothing EXCEPT !.result = "connectfail"]
  ELSE
    LET req == [OtaNothing EXCEPT !.descriptorRequested = TRUE] IN
    IF in.jsonCode # HTTP_CODE_OK THEN [req EXCEPT !.result = "jsonhttperr"]
    ELSE IF JsonNotFound(in.payload) THEN [req EXCEPT !.result = "nojson"]
    ELSE IF in.parseErr THEN [req EXCEPT !.result = "parseerr"]
    ELSE IF Len(in.version) = 0 \/ Len(in.url) = 0 THEN [req EXCEPT !.result = "missing"]
    ELSE IF SameVersion(in.version, FW_VERSION) THEN [req EXCEPT !.result = "uptodate"]
    ELSE IF ~in.beginOk THEN [req EXCEPT !.result = "beginfail"]
    ELSE
      LET got == [req EXCEPT !.httpsBegun = TRUE, !.getIssued = TRUE] IN
      IF in.httpCode # HTTP_CODE_OK THEN [got EXCEPT !.result = "httperr", !.httpsEnds = 1]
      ELSE IF SizeInvalid(in.size) THEN [got EXCEPT !.result = "badsize", !.httpsEnds = 1]
      ELSE IF ~in.updBeginOk THEN [got EXCEPT !.result = "updbeginfail", !.httpsEnds = 1]
      ELSE
        LET written == UpdateWriteStream(in.size, in.streamed)
            wr == [got EXCEPT !.updBegins = 1, !.beginSize = in.size, !.written = written]
        IN
        IF ~WrittenAll(written, in.size)
        THEN [wr EXCEPT !.result = "short", !.updEnds = 1, !.httpsEnds = 1,
                        !.finalized = EndShortWrite(in.size, written, in.verifyOk)]
        ELSE
          LET ended == EndFullWrite(in.size, written, in.verifyOk)
              cl == [wr EXCEPT !.updEnds = 1, !.httpsEnds = 1, !.finalized = ended]
          IN
          IF ~ended THEN [cl EXCEPT !.result = "endfail"]
          ELSE IF ~UpdateIsFinished(in.size, written) THEN [cl EXCEPT !.result = "unfinished"]
          ELSE [cl EXCEPT !.result = "applied", !.restart = TRUE]

\* values of measure_interval_sec served, in seconds (long)
Interval103Values == {Absent, 0, 1, 5, 10, 604800, 2592000, 2592001, -3}

\* doc["measure_interval_sec"] | 0
JsonLongOr(member, fallback) == IF member = Absent THEN fallback ELSE member

MaxIntervalSec == 30 * 24 * 3600

\* min 5 s, max 30 days
ClampSec(intervalSec) ==
  IF intervalSec < 5 THEN 5
  ELSE IF intervalSec > MaxIntervalSec THEN MaxIntervalSec
  ELSE intervalSec

\* answers to the request of checkConfigUpdate: https.begin is connectOk, the status
\* of the GET is code
Cfg103Inputs ==
  {CfgAnswer(TRUE, TRUE, PayloadJson, FALSE, ConfigDoc(i, m, "absent")) @@ [code |-> 200] :
      i \in Interval103Values, m \in JsonBools}
  \cup {CfgAnswer(TRUE, TRUE, p, FALSE, NoDoc) @@ [code |-> 200] : p \in Payloads}
  \cup {CfgAnswer(TRUE, TRUE, PayloadJson, FALSE, NoDoc) @@ [code |-> c] : c \in JsonCodes}
  \cup {CfgAnswer(FALSE, TRUE, PayloadJson, FALSE, NoDoc) @@ [code |-> 200],
        CfgAnswer(TRUE, FALSE, PayloadJson, FALSE, NoDoc) @@ [code |-> 200],
        CfgAnswer(TRUE, TRUE, PayloadJson, TRUE, NoDoc) @@ [code |-> 200]}

\* faulty variant: a call starts from the values of boot, as the later firmware
\* starts from its defaults
checkConfigUpdate103Resetting(g, in) ==
  IF ~in.wifi THEN [g |-> InitGlobals103, result |-> "nowifi", requested |-> FALSE]
  ELSE IF ~in.connectOk
    THEN [g |-> InitGlobals103, result |-> "connectfail", requested |-> FALSE]
  ELSE IF in.code # HTTP_CODE_OK
    THEN [g |-> InitGlobals103, result |-> "httperr", requested |-> TRUE]
  ELSE IF JsonNotFound(in.payload)
    THEN [g |-> InitGlobals103, result |-> "nojson", requested |-> TRUE]
  ELSE IF in.parseErr THEN [g |-> InitGlobals103, result |-> "parseerr", requested |-> TRUE]
  ELSE
    LET intervalSec == JsonLongOr(in.doc.interval, 0)
        maint == JsonBoolOr(in.doc.maintenance, FALSE)
    IN [g |-> Globals(IF intervalSec > 0 THEN MulU32(U32(ClampSec(intervalSec)), 1000)
                      ELSE InitGlobals103.measureIntervalMs,
                      maint, g.testMode),
        result |-> "ok", requested |-> TRUE]

\* v1.0.3: the globals after the call and how the call ended
checkConfigUpdate103(g, in) ==
  IF ~in.wifi THEN [g |-> g, result |-> "nowifi", requested |-> FALSE]
  ELSE IF ~in.connectOk THEN [g |-> g, result |-> "connectfail", requested |-> FALSE]
  ELSE IF in.code # HTTP_CODE_OK THEN [g |-> g, result |-> "httperr", requested |-> TRUE]
  ELSE IF JsonNotFound(in.payload) THEN [g |-> g, result |-> "nojson", requested |-> TRUE]
  ELSE IF in.parseErr THEN [g |-> g, result |-> "parseerr", requested |-> TRUE]
  ELSE
    LET intervalSec == JsonLongOr(in.doc.interval, 0)
        maint == JsonBoolOr(in.doc.maintenance, FALSE)
    IN [g |-> Globals(IF intervalSec > 0 THEN MulU32(U32(ClampSec(intervalSec)), 1000)
                      ELSE g.measureIntervalMs,
                      maint, g.testMode),
        result |-> "ok", requested |-> TRUE]

Init103 ==
  /\ variant = "v103"
  /\ pc = "entry"
  /\ measureIntervalMs = InitGlobals103.measureIntervalMs
  /\ maintenanceMode = InitGlobals103.maintenanceMode
  /\ testMode = InitGlobals103.testMode
  /\ lastMeasureMs = U32(0)
  /\ lastWifiRetryMs = U32(0)
  /\ clock = U32(0)
  /\ passes = 0
  /\ cfg = NoCfg
  /\ last = [fn |-> "boot"]
  /\ trace = <<>>
  /\ postsSinceFetch = 0
  /\ efuseMac = DefaultMac
  /\ retriedThisCycle = FALSE
  /\ linkSeen = FALSE
  /\ deviceId = <<>>
  /\ bootImage = FW_VERSION

\* Serial.begin ... analogReadResolution
Setup103Begin ==
  /\ pc = "entry"
  /\ pc' = "wifi"
  /\ last' = [fn |-> "setupBegin"]
  /\ deviceId' = makeDeviceId9Digits(efuseMac)
  /\ UNCHANGED <<variant, efuseMac, linkSeen, retriedThisCycle, postsSinceFetch, trace, measureIntervalMs, maintenanceMode, testMode, lastMeasureMs,
                 lastWifiRetryMs, clock, passes, cfg, bootImage>>

\* setupWiFiBarrique(); getTimestamp()
Setup103WiFi ==
  /\ pc = "wifi"
  /\ \E j \in JoinAfter, portalOk \in BOOLEAN : last' = setupWiFi(j, portalOk, deviceId)
  /\ linkSeen' = (linkSeen \/ last'.connected)
  /\ pc' = "config"
  /\ UNCHANGED <<variant, efuseMac, retriedThisCycle, deviceId, postsSinceFetch, trace, measureIntervalMs, maintenanceMode, testMode, lastMeasureMs,
                 lastWifiRetryMs, clock, passes, cfg, bootImage>>

Config103Step(next) ==
  \E in \in Cfg103Inputs :
    LET r == checkConfigUpdate103(Globals(measureIntervalMs, maintenanceMode, testMode), in)
    IN /\ measureIntervalMs' = r.g.measureIntervalMs
       /\ maintenanceMode' = r.g.maintenanceMode
       /\ testMode' = r.g.testMode
       /\ cfg' = [result |-> r.result, requested |-> r.requested,
                  doc |-> IF r.result = "ok" THEN in.doc ELSE NoDoc]
       /\ last' = [fn |-> "checkConfigUpdate", wifi |-> in.wifi,
                   before |-> Globals(measureIntervalMs, maintenanceMode, testMode)]
       /\ postsSinceFetch' = 0
       /\ pc' = next
       /\ linkSeen' = (linkSeen \/ in.wifi)

Setup103Config ==
  /\ pc = "config"
  /\ Config103Step("ota")
  /\ UNCHANGED <<variant, efuseMac, retriedThisCycle, deviceId, trace, lastMeasureMs, lastWifiRetryMs, clock, passes, bootImage>>

Ota103Step(from, next) ==
  \E in \in Ota103Inputs :
    LET out == checkForOTAUpdate103(in)
    IN /\ last' = [fn |-> "checkForOTAUpdate", from |-> from, in |-> in, out |-> out]
       /\ bootImage' = IF out.finalized THEN in.version ELSE bootImage
       /\ pc' = IF out.restart THEN "restarted" ELSE next
       /\ linkSeen' = (linkSeen \/ in.wifi)

Setup103Ota ==
  /\ pc = "ota"
  /\ Ota103Step("setup", "timers")
  /\ UNCHANGED <<variant, efuseMac, retriedThisCycle, deviceId, postsSinceFetch, trace, measureIntervalMs, maintenanceMode, testMode, lastMeasureMs,
                 lastWifiRetryMs, clock, passes, cfg>>

\* lastMeasureMs = millis(); lastWifiRetryMs = millis()
Setup103Timers ==
  /\ pc = "timers"
  /\ \E now \in BootMillis :
       /\ clock' = U32(now)
       /\ lastMeasureMs' = U32(now)
       /\ lastWifiRetryMs' = U32(now)
  /\ last' = [fn |-> "setupTimers"]
  /\ pc' = "loop"
  /\ UNCHANGED <<variant, efuseMac, linkSeen, retriedThisCycle, deviceId, postsSinceFetch, trace, measureIntervalMs, maintenanceMode, testMode, passes, cfg,
                 bootImage>>

Loop103Retry ==
  /\ pc = "loop"
  /\ \E wifi \in BOOLEAN :
       LET r == retryWiFiIfNeeded(wifi, clock, lastWifiRetryMs)
       IN /\ lastWifiRetryMs' = r.last
          /\ last' = [fn |-> "retryWiFiIfNeeded", wifi |-> wifi, started |-> r.started]
  /\ retriedThisCycle' = TRUE
  /\ linkSeen' = (linkSeen \/ last'.wifi)
  /\ pc' = "check"
  /\ UNCHANGED <<variant, efuseMac, deviceId, postsSinceFetch, trace, measureIntervalMs, maintenanceMode, testMode, lastMeasureMs,
                 clock, passes, cfg, bootImage>>

\* if (now - lastMeasureMs >= measureIntervalMs) { lastMeasureMs = now; ...
Loop103Check ==
  /\ pc = "check"
  /\ IF Due(clock, lastMeasureMs, measureIntervalMs)
     THEN lastMeasureMs' = clock /\ pc' = "loop_config"
     ELSE lastMeasureMs' = lastMeasureMs /\ pc' = "return"
  /\ last' = [fn |-> "loopCheck", due |-> Due(clock, lastMeasureMs, measureIntervalMs)]
  /\ UNCHANGED <<variant, efuseMac, linkSeen, retriedThisCycle, deviceId, postsSinceFetch, trace, measureIntervalMs, maintenanceMode, testMode, lastWifiRetryMs,
                 clock, passes, cfg, bootImage>>

Loop103Config ==
  /\ pc = "loop_config"
  /\ Config103Step("loop_ota")
  /\ UNCHANGED <<variant, efuseMac, retriedThisCycle, deviceId, trace, lastMeasureMs, lastWifiRetryMs, clock, passes, bootImage>>

Loop103Ota ==
  /\ pc = "loop_ota"
  /\ Ota103Step("loop", "loop_measure")
  /\ UNCHANGED <<variant, efuseMac, retriedThisCycle, deviceId, postsSinceFetch, trace, measureIntervalMs, maintenanceMode, testMode, lastMeasureMs,
                 lastWifiRetryMs, clock, passes, cfg>>

\* readAdcAveraged ... postMeasurement
Loop103Measure ==
  /\ pc = "loop_measure"
  /\ \E in \in PostInputs :
       /\ last' = doOneMeasurement(in)
       /\ postsSinceFetch' = postsSinceFetch + last'.posts
       /\ linkSeen' = (linkSeen \/ in.wifi)
  /\ pc' = "return"
  /\ UNCHANGED <<variant, efuseMac, retriedThisCycle, deviceId, trace, measureIntervalMs, maintenanceMode, testMode, lastMeasureMs,
                 lastWifiRetryMs, clock, passes, cfg, bootImage>>

\* loop() returns and is called again; the time the pass took
Loop103Return ==
  /\ pc = "return"
  /\ passes < MaxPasses
  /\ \E d \in PassMillis : clock' = AddW(clock, U32(d))
  /\ passes' = passes + 1
  /\ last' = [fn |-> "return"]
  /\ pc' = "loop"
  /\ UNCHANGED <<variant, efuseMac, linkSeen, retriedThisCycle, deviceId, postsSinceFetch, trace, measureIntervalMs, maintenanceMode, testMode, lastMeasureMs,
                 lastWifiRetryMs, cfg, bootImage>>

Next103 ==
  \/ Setup103Begin
  \/ Setup103WiFi
  \/ Setup103Config
  \/ Setup103Ota
  \/ Setup103Timers
  \/ Loop103Retry
  \/ Loop103Check
  \/ Loop103Config
  \/ Loop103Ota
  \/ Loop103Measure
  \/ Loop103Return

Spec103 == Init103 /\ [][Next103]_vars

\* ------------------------------------------------------------------------
\* compareSemver applied to version texts
\* ------------------------------------------------------------------------
\* components of the versions compared (one and two digits)
SemverComps == {0, 9, 10}

SemverTriples == {<<x, y, z>> : x \in SemverComps, y \in SemverComps, z \in SemverComps}

InitSemver ==
  /\ variant = "v113"
  /\ pc = "semver"
  /\ measureIntervalMs = InitGlobals(variant).measureIntervalMs
  /\ maintenanceMode = InitGlobals(variant).maintenanceMode
  /\ testMode = InitGlobals(variant).testMode
  /\ lastMeasureMs = U32(0)
  /\ lastWifiRetryMs = U32(0)
  /\ clock = U32(0)
  /\ passes = 0
  /\ cfg = NoCfg
  /\ trace = <<>>
  /\ postsSinceFetch = 0
  /\ efuseMac = DefaultMac
  /\ retriedThisCycle = FALSE
  /\ linkSeen = FALSE
  /\ deviceId = <<>>
  /\ \E a \in SemverTriples, b \in SemverTriples, c \in SemverTriples :
       last = [fn |-> "versions", a |-> a, b |-> b, c |-> c]
  /\ bootImage = FIRMWARE_VERSION(variant)

\* compareSemver on the texts of a, b and c
SemverCompare ==
  /\ pc = "semver"
  /\ LET a == FormatVersion(last.a)
         b == FormatVersion(last.b)
         c == FormatVersion(last.c)
     IN last' = [fn |-> "compareSemver", a |-> last.a, b |-> last.b, c |-> last.c,
                 aa |-> compareSemver(a, a), ab |-> compareSemver(a, b),
                 ba |-> compareSemver(b, a), bc |-> compareSemver(b, c),
                 ac |-> compareSemver(a, c)]
  /\ pc' = "compared"
  /\ UNCHANGED <<variant, efuseMac, linkSeen, retriedThisCycle, deviceId, postsSinceFetch, trace, measureIntervalMs, maintenanceMode, testMode, lastMeasureMs,
                 lastWifiRetryMs, clock, passes, cfg, bootImage>>

NextSemver == SemverCompare

SpecSemver == InitSemver /\ [][NextSemver]_vars

\* ------------------------------------------------------------------------
\* parseSemver applied to texts of one, two and three components
\* ------------------------------------------------------------------------
ParseNumbers == {0, 1, 2, 12, 100}

ParseComps ==
  {<<x>> : x \in ParseNumbers}
    \cup {<<x, y>> : x \in ParseNumbers, y \in ParseNumbers}
    \cup {<<x, y, z>> : x \in ParseNumbers, y \in ParseNumbers, z \in ParseNumbers}

\* the same version written with its three components
Dotted3(comps) == comps \o SubSeq(<<0, 0>>, 1, 3 - Len(comps))

InitParse ==
  /\ variant = "v113"
  /\ pc = "parse"
  /\ measureIntervalMs = InitGlobals(variant).measureIntervalMs
  /\ maintenanceMode = InitGlobals(variant).maintenanceMode
  /\ testMode = InitGlobals(variant).testMode
  /\ lastMeasureMs = U32(0)
  /\ lastWifiRetryMs = U32(0)
  /\ clock = U32(0)
  /\ passes = 0
  /\ cfg = NoCfg
  /\ trace = <<>>
  /\ postsSinceFetch = 0
  /\ efuseMac = DefaultMac
  /\ retriedThisCycle = FALSE
  /\ linkSeen = FALSE
  /\ deviceId = <<>>
  /\ \E comps \in ParseComps : last = [fn |-> "version", comps |-> comps]
  /\ bootImage = FIRMWARE_VERSION(variant)

\* parseSemver on the text, and compareSemver of the text with its three-component form
SemverParse ==
  /\ pc = "parse"
  /\ LET v == FormatVersion(last.comps)
     IN last' = [fn |-> "parseSemver", comps |-> last.comps, out |-> parseSemver(v),
                 vsDotted |-> compareSemver(v, FormatVersion(Dotted3(last.comps))),
                 dottedVs |-> compareSemver(FormatVersion(Dotted3(last.comps)), v)]
  /\ pc' = "parsed"
  /\ UNCHANGED <<variant, efuseMac, linkSeen, retriedThisCycle, deviceId, postsSinceFetch, trace, measureIntervalMs,
                 maintenanceMode, testMode, lastMeasureMs, lastWifiRetryMs, clock, passes, cfg, bootImage>>

NextParse == SemverParse

SpecParse == InitParse /\ [][NextParse]_vars

\* ------------------------------------------------------------------------
\* The interval tests of loop() and retryWiFiIfNeeded() over the range of millis()
\* ------------------------------------------------------------------------
\* limbs of the stored timestamps and of the times elapsed since, up to 2^32 - 1
StampLimbs == {0, 1000, 65535}
ElapsedLow == {0, 1, 9999, 10000, 59999, 60000, 65535}
ElapsedHigh == {0, 1, 65535}

\* millis() when `elapsed` ms have passed since it returned `stored`
MillisAfter(stored, elapsed) == AddW(stored, elapsed)

InitMillis ==
  /\ variant = "v113"
  /\ pc = "millis"
  /\ measureIntervalMs = InitGlobals(variant).measureIntervalMs
  /\ maintenanceMode = TRUE
  /\ testMode = InitGlobals(variant).testMode
  /\ \E lo \in StampLimbs, hi \in StampLimbs, elo \in ElapsedLow, ehi \in ElapsedHigh :
       /\ lastMeasureMs = <<lo, hi>>
       /\ lastWifiRetryMs = <<lo, hi>>
       /\ clock = MillisAfter(<<lo, hi>>, <<elo, ehi>>)
       /\ last = [fn |-> "millis", stored |-> <<lo, hi>>, elapsed |-> <<elo, ehi>>]
  /\ passes = 0
  /\ cfg = NoCfg
  /\ trace = <<>>
  /\ postsSinceFetch = 0
  /\ efuseMac = DefaultMac
  /\ retriedThisCycle = FALSE
  /\ linkSeen = FALSE
  /\ deviceId = makeDeviceId9Digits(efuseMac)
  /\ bootImage = FIRMWARE_VERSION(variant)

\* retryWiFiIfNeeded() with the link down, then the test of loop()
MillisTests ==
  /\ pc = "millis"
  /\ LET r == retryWiFiIfNeeded(FALSE, clock, lastWifiRetryMs)
         due == Due(clock, lastMeasureMs, U32(MAINT_INTERVAL_MS))
     IN /\ lastWifiRetryMs' = r.last
        /\ lastMeasureMs' = IF due THEN clock ELSE lastMeasureMs
        /\ last' = [fn |-> "intervalTests", stored |-> last.stored, elapsed |-> last.elapsed,
                    started |-> r.started, due |-> due]
  /\ retriedThisCycle' = TRUE
  /\ pc' = "tested"
  /\ UNCHANGED <<variant, efuseMac, linkSeen, deviceId, postsSinceFetch, trace, measureIntervalMs, maintenanceMode,
                 testMode, clock, passes, cfg, bootImage>>

NextMillis == MillisTests

SpecMillis == InitMillis /\ [][NextMillis]_vars

\* ------------------------------------------------------------------------
\* Properties
\* ------------------------------------------------------------------------
\* v1.1.3 or its twin v1.1.2 runs
Running11x == variant \in {"v113", "v112"}

OtaCalled == last.fn = "checkForOTAUpdate"

ConfigCalled == last.fn = "checkConfigUpdate"

\* goToDeepSleep has armed the timer and the chip sleeps
Slept == pc = "asleep" /\ last.fn = "goToDeepSleep"

\* a duration in milliseconds, in microseconds on 64 bits
Micros(ms) == MulW(U64(ms), 1000)

MaxW(a, b) == IF LessW(a, b) THEN b ELSE a

DefaultMs == U32(604800000)

\* C1: in v1.1.3 / v1.1.2 checkForOTAUpdate is called only while the mode resolved
\* by the latest configuration fetch is Maintenance (maintenanceMode is true at the call).
C1_OtaOnlyInMaintenance == (Running11x /\ OtaCalled) => maintenanceMode

\* C2: every timer armed by goToDeepSleep lasts at least 5000 ms; a request below
\* 5000 ms is armed as exactly 5000 ms, a request of 5000 ms or more unchanged.
C2_SleepFloor ==
  Slept =>
    /\ ~LessW(last.sleepUs, Micros(U32(5000)))
    /\ LessW(last.requestedMs, U32(5000)) => last.sleepUs = Micros(U32(5000))
    /\ ~LessW(last.requestedMs, U32(5000)) => last.sleepUs = Micros(last.requestedMs)

C2_Witness ==
  /\ Slept
  /\ last.from = "loop"
  /\ last.requestedMs = U32(1000)
  /\ last.sleepUs = Micros(U32(5000))

\* C3: after checkConfigUpdate (v1.1.3) maintenanceMode and testMode are never both
\* true; a configuration marking both leaves maintenanceMode true and testMode false.
C3_FlagsExclusive ==
  (Running11x /\ cfg.result # "none") =>
    /\ ~(maintenanceMode /\ testMode)
    /\ (cfg.result = "ok" /\ cfg.doc.maintenance = "true" /\ cfg.doc.test = "true")
         => (maintenanceMode /\ ~testMode)

\* C4: the decision of setup() follows the precedence table: maintenance set (test
\* set or not) stays awake, no deep sleep; maintenance clear and test set sleeps
\* exactly 20000 ms; both clear sleeps measureIntervalMs (5000 ms at least).
C4_Precedence ==
  [][(Running11x /\ pc = "decide") =>
       IF maintenanceMode
       THEN pc' \in {"timers", "restarted"} /\ last'.fn = "checkForOTAUpdate"
       ELSE /\ pc' = "asleep"
            /\ last'.fn = "goToDeepSleep"
            /\ last'.sleepUs = IF testMode THEN Micros(U32(20000))
                               ELSE Micros(MaxW(U32(5000), measureIntervalMs))]_vars

C4_Witness ==
  /\ Running11x
  /\ Slept
  /\ last.from = "setup"
  /\ ~maintenanceMode
  /\ testMode
  /\ cfg.doc.interval = 1
  /\ last.sleepUs = Micros(U32(20000))

\* C5: in Normal mode, for every non-zero measure_interval_s, measureIntervalMs is
\* the mathematical product measure_interval_s * 1000 and the sleep armed lasts
\* max(5000, measure_interval_s * 1000) ms.
C5_NoWrap ==
  (Running11x /\ Slept /\ ~testMode /\ cfg.result = "ok"
     /\ cfg.doc.interval # Absent /\ cfg.doc.interval # 0) =>
    /\ U64(measureIntervalMs) = MulW(U64(U32(cfg.doc.interval)), 1000)
    /\ last.sleepUs = MaxW(Micros(U32(5000)),
                           MulW(MulW(U64(U32(cfg.doc.interval)), 1000), 1000))

FailureResults == {"nowifi", "connectfail", "nojson", "parseerr"}

\* C6: whenever checkConfigUpdate (v1.1.3) ends on a failure path, the configuration
\* is the hard-coded default: 604800000 ms, maintenance on, test off, whatever the
\* three variables held before.
C6_FailureGivesDefault ==
  (Running11x /\ cfg.result \in FailureResults) =>
    /\ measureIntervalMs = DefaultMs
    /\ maintenanceMode
    /\ ~testMode

C6_Witness ==
  /\ Running11x
  /\ ConfigCalled
  /\ cfg.result = "nojson"
  /\ last.before.testMode
  /\ last.before.measureIntervalMs = U32(1000)
  /\ measureIntervalMs = DefaultMs
  /\ ~testMode

\* C7: a configuration fetch made with Wi-Fi down resolves to Maintenance whatever
\* was held before, and no deep sleep is armed while the latest fetch is that one.
C7_NoWifiMeansMaintenance ==
  /\ (ConfigCalled /\ ~last.wifi) => (cfg.result = "nowifi" /\ maintenanceMode)
  /\ cfg.result = "nowifi" => (maintenanceMode /\ pc # "asleep")

C7_Witness ==
  /\ variant = "v113"
  /\ ConfigCalled
  /\ ~last.wifi
  /\ last.before.testMode
  /\ last.before.measureIntervalMs = U32(1000)
  /\ maintenanceMode
  /\ pc = "loop_ota"

\* components of a version, padded with zeros to three
Pad3(comps) ==
  <<comps[1], IF Len(comps) >= 2 THEN comps[2] ELSE 0, IF Len(comps) >= 3 THEN comps[3] ELSE 0>>

\* SemVer ordering: lexicographic on (major, minor, patch)
LexLess(a, b) ==
  \/ a[1] < b[1]
  \/ a[1] = b[1] /\ a[2] < b[2]
  \/ a[1] = b[1] /\ a[2] = b[2] /\ a[3] < b[3]

\* the version each firmware declares
LocalTriple ==
  IF variant = "v113" THEN <<1, 1, 3>>
  ELSE IF variant = "v112" THEN <<1, 1, 2>>
  ELSE <<1, 0, 8>>

\* the body holds a '{' followed, later, by a '}'
HasObject(payload) ==
  \E i, j \in 1..Len(payload) : i < j /\ payload[i] = "{" /\ payload[j] = "}"

\* every step of the update succeeded, for a descriptor whose version is a dotted number
AllStepsOk(in) ==
  /\ in.wifi
  /\ in.connectOk
  /\ HasObject(in.payload)
  /\ ~in.parseErr
  /\ in.version # <<>>
  /\ in.url # <<>>
  /\ LexLess(LocalTriple, Pad3(in.comps))
  /\ in.beginOk
  /\ in.httpCode = 200
  /\ in.size > 0
  /\ in.updBeginOk
  /\ in.streamed >= in.size
  /\ in.verifyOk

\* the descriptor's version is a dotted number (or is missing)
WellFormed(in) == in.comps # <<>> \/ in.version = <<>>

\* C8: checkForOTAUpdate restarts the chip if and only if every step succeeded;
\* on every other path it returns with no restart and the boot image unchanged.
C8_RestartIffAllOk ==
  (OtaCalled /\ WellFormed(last.in)) =>
    /\ last.out.restart <=> (last.in.version # <<>> /\ AllStepsOk(last.in))
    /\ last.out.restart <=> pc = "restarted"
    /\ ~last.out.restart =>
         (bootImage = FIRMWARE_VERSION(variant) /\ ~last.out.finalized)

C8_Witness ==
  /\ OtaCalled
  /\ last.out.restart
  /\ pc = "restarted"
  /\ last.in.comps = <<1, 1, 4>>
  /\ bootImage = FormatVersion(<<1, 1, 4>>)

\* C9: when the bytes written differ from the declared length, the update ends with
\* the new image never made valid: the transaction is not finalized, the boot image
\* is the one that was running and there is no restart.
C9_ShortWriteKeepsImage ==
  (OtaCalled /\ last.out.updBegins = 1 /\ last.out.written # last.in.size) =>
    /\ ~last.out.finalized
    /\ bootImage = FIRMWARE_VERSION(variant)
    /\ ~last.out.restart
    /\ pc # "restarted"

C9_Witness ==
  /\ OtaCalled
  /\ last.out.updBegins = 1
  /\ last.in.size = 3
  /\ last.out.written = 2
  /\ last.out.updEnds = 1
  /\ bootImage = FIRMWARE_VERSION(variant)

\* C10: a descriptor whose version is lower than or equal to FIRMWARE_VERSION starts
\* no download and no write transaction; a strictly greater one, everything else
\* succeeding, starts the download (1.1.2 running, 1.1.3 advertised).
C10_NoDownloadUnlessNewer ==
  (OtaCalled /\ last.in.comps # <<>>) =>
    /\ ~LexLess(LocalTriple, Pad3(last.in.comps)) =>
         (~last.out.httpsBegun /\ ~last.out.getIssued /\ last.out.updBegins = 0
          /\ ~last.out.restart)
    /\ (LexLess(LocalTriple, Pad3(last.in.comps)) /\ last.in.wifi /\ last.in.connectOk
        /\ HasObject(last.in.payload) /\ ~last.in.parseErr /\ last.in.url # <<>>
        /\ last.in.beginOk) => last.out.getIssued

C10_Witness ==
  /\ variant = "v112"
  /\ OtaCalled
  /\ last.in.comps = <<1, 1, 3>>
  /\ last.out.getIssued
  /\ last.out.updBegins = 1

\* the version v1.0.3 declares
Local103 == <<1, 0, 3>>

\* C11: in v1.0.3 an image is downloaded and installed only if the version advertised
\* is strictly greater than FW_VERSION; an older version never starts a download.
C11_DownloadOnlyIfGreater ==
  (variant = "v103" /\ OtaCalled /\ last.in.comps # <<>>) =>
    ((last.out.getIssued \/ last.out.updBegins = 1 \/ last.out.finalized)
       => LexLess(Local103, Pad3(last.in.comps)))

\* lexicographic comparison of two triples: -1, 0 or 1
LexCmp(a, b) == IF LexLess(a, b) THEN -1 ELSE IF LexLess(b, a) THEN 1 ELSE 0

\* C12: compareSemver is a total order on version triples: compareSemver(a,a) = 0,
\* compareSemver(a,b) = -compareSemver(b,a), a < b and b < c imply a < c, and the
\* result is the lexicographic comparison of (major, minor, patch).
C12_TotalOrder ==
  last.fn = "compareSemver" =>
    /\ last.aa = 0
    /\ last.ab = -last.ba
    /\ (last.ab < 0 /\ last.bc < 0) => last.ac < 0
    /\ last.ab = LexCmp(last.a, last.b)
    /\ last.bc = LexCmp(last.b, last.c)
    /\ last.ac = LexCmp(last.a, last.c)

C12_Witness ==
  /\ last.fn = "compareSemver"
  /\ last.a = <<9, 10, 9>>
  /\ last.b = <<9, 10, 10>>
  /\ last.c = <<10, 0, 0>>
  /\ last.ab = -1
  /\ last.bc = -1
  /\ last.ac = -1

\* C13: a configuration object whose measure_interval_s is 0, or that has no
\* measure_interval_s, resolves to the default interval: measureIntervalMs is
\* 604800000, never zero.
C13_ZeroIsDefault ==
  (Running11x /\ cfg.result = "ok" /\ cfg.doc.interval \in {0, Absent}) =>
    (measureIntervalMs = DefaultMs /\ measureIntervalMs # U32(0))

C13_Witness ==
  /\ Running11x
  /\ ConfigCalled
  /\ cfg.result = "ok"
  /\ cfg.doc.interval = 0
  /\ last.before.measureIntervalMs = U32(1000)
  /\ measureIntervalMs = DefaultMs

\* C14: after a successfully parsed configuration response the three variables
\* depend on that response only: maintenance absent gives true, test_mode absent
\* gives false, measure_interval_s absent or zero gives 604800 s, and a member that
\* is present gives the value served (the interval in milliseconds).
C14_FreshFromResponse ==
  (Running11x /\ cfg.result = "ok") =>
    /\ maintenanceMode <=> cfg.doc.maintenance \in {"absent", "true"}
    /\ testMode <=> cfg.doc.test = "true"
    /\ cfg.doc.interval \in {0, Absent} => measureIntervalMs = DefaultMs
    /\ cfg.doc.interval \notin {0, Absent} =>
         U64(measureIntervalMs) = MulW(U64(U32(cfg.doc.interval)), 1000)

\* C15: goToDeepSleep is reached only with maintenanceMode false: while the mode
\* resolved by the latest configuration fetch is Maintenance the timer is never
\* armed and the chip never suspended.
C15_NoSleepInMaintenance ==
  /\ Slept => ~maintenanceMode
  /\ (Running11x /\ pc = "asleep") => (Slept /\ cfg.result = "ok" /\ cfg.doc.maintenance = "false")

C15_Witness ==
  /\ Slept
  /\ last.from = "loop"
  /\ ~maintenanceMode
  /\ cfg.doc.maintenance = "false"
  /\ passes = 2

\* the configuration {maintenance: true, test_mode: false, measure_interval_s: 604800}
MaintenanceDoc == ConfigDoc(604800, "true", "false")

\* C16: with Wi-Fi connected and the server configuration {maintenance: true,
\* test: false, measure_interval_s: 604800}, the boot resolves to Maintenance, goes
\* on to the update check, which issues the firmware-descriptor request, and
\* goToDeepSleep is not invoked while that configuration is the latest one.
C16_MaintenanceEndToEnd ==
  /\ []((Running11x /\ cfg.result = "ok" /\ cfg.doc = MaintenanceDoc) =>
          (maintenanceMode /\ ~testMode /\ measureIntervalMs = DefaultMs /\ pc # "asleep"))
  /\ [][(Running11x /\ pc = "decide" /\ cfg.result = "ok" /\ cfg.doc = MaintenanceDoc) =>
          /\ last'.fn = "checkForOTAUpdate"
          /\ pc' \in {"timers", "restarted"}
          /\ (last'.in.wifi /\ last'.in.connectOk) => last'.out.descriptorRequested]_vars

C16_Witness ==
  /\ Running11x
  /\ OtaCalled
  /\ last.from = "setup"
  /\ cfg.result = "ok"
  /\ cfg.doc = MaintenanceDoc
  /\ last.out.descriptorRequested
  /\ last.out.result = "uptodate"
  /\ pc = "timers"

IsPrefix(a, b) == Len(a) <= Len(b) /\ SubSeq(b, 1, Len(a)) = a

\* the steps of a boot, up to the mode decision
BootOrder == <<"makeDeviceId9Digits", "setupWiFi", "doOneMeasurement", "checkConfigUpdate">>

CycleClosed == Slept \/ pc \in {"loop", "check", "delay"}

\* ESP.restart() after an update that was applied
RestartedByUpdate == pc = "restarted" /\ OtaCalled /\ last.out.result = "applied"

\* C18: no failure aborts a cycle: whatever fails (no Wi-Fi, failed POST, failed
\* configuration fetch, failed or malformed update check), every boot reaches its
\* mode decision (deep sleep armed or maintenance loop entered) and every fired
\* iteration of the maintenance loop reaches its closing wait; only an update that
\* was applied ends the cycle otherwise, by a restart.
C18_CycleCompletes == (~CycleClosed) ~> (CycleClosed \/ RestartedByUpdate)

C18_Witness ==
  /\ Running11x
  /\ pc = "delay"
  /\ passes = 1
  /\ OtaCalled
  /\ last.from = "loop"
  /\ last.out.result = "parseerr"
  /\ cfg.result = "nowifi"

\* C19: once goToDeepSleep has been invoked, from setup or from loop, the chip is
\* suspended and nothing else of the wake cycle happens: the only step that follows
\* is the start of setup() from the entry point, with the globals reinitialised.
C19_NothingAfterSleep ==
  [][/\ last'.fn = "goToDeepSleep" => pc' = "asleep"
     /\ pc = "asleep" =>
          /\ pc' = "entry"
          /\ last'.fn = "boot"
          /\ passes' = 0 /\ trace' = <<>> /\ cfg' = NoCfg /\ clock' = U32(0)
          /\ maintenanceMode' /\ ~testMode' /\ measureIntervalMs' = DefaultMs]_vars

C19_Witness ==
  /\ Slept
  /\ last.from = "loop"
  /\ passes = 2
  /\ testMode
  /\ last.sleepUs = Micros(U32(20000))

PostCalled == last.fn = "postMeasurement"

\* C20: postMeasurement returns false without opening any HTTP request when Wi-Fi
\* is not connected; when connected it issues exactly one POST and returns true if
\* and only if the HTTP status is 200 or 201.
C20_PostContract ==
  PostCalled =>
    /\ ~last.in.wifi => (last.begins = 0 /\ last.posts = 0 /\ ~last.ok)
    /\ last.in.wifi => (last.posts = 1 /\ (last.ok <=> last.in.code \in {200, 201}))

\* C20, amended: with Wi-Fi down no request is opened and false is returned; when
\* connected and https.begin succeeds exactly one POST is issued and the result is
\* true if and only if the status is 200 or 201; when https.begin fails no POST is
\* issued and false is returned.
C20_PostContractAmended ==
  PostCalled =>
    /\ ~last.in.wifi => (last.begins = 0 /\ last.posts = 0 /\ ~last.ok)
    /\ (last.in.wifi /\ last.in.beginOk) =>
         (last.posts = 1 /\ (last.ok <=> last.in.code \in {200, 201}))
    /\ (last.in.wifi /\ ~last.in.beginOk) => (last.posts = 0 /\ ~last.ok)

C20_Witness ==
  /\ PostCalled
  /\ last.in.wifi
  /\ last.in.beginOk
  /\ last.in.code = 201
  /\ last.posts = 1
  /\ last.ok

\* C21: a measurement report that failed is not sent again in the same cycle: at
\* most one POST is issued between two consecutive configuration fetches (and
\* between boot and the first one), whatever its outcome, and the step that follows
\* the report is the configuration fetch, after a failure as after a success.
C21_NoRetry ==
  /\ [](postsSinceFetch <= 1)
  /\ [][PostCalled => (last'.fn = "checkConfigUpdate" /\ postsSinceFetch' = 0)]_vars
  /\ [][last'.fn = "postMeasurement" =>
          (last'.posts <= 1 /\ postsSinceFetch' = last'.posts
           /\ pc' = IF pc = "measure" THEN "config" ELSE "loop_config")]_vars

C21_Witness ==
  /\ PostCalled
  /\ last.in.code = 500
  /\ last.posts = 1
  /\ ~last.ok
  /\ postsSinceFetch = 1
  /\ pc = "loop_config"
  /\ passes = 2

WiFiCalled == last.fn = "setupWiFi"

\* What a finished call of setupWiFi leaves behind.
SetupWiFiOutcome ==
  /\ last.tries <= 60
  /\ last.portal.opened <=> (last.tries = 60 /\ last.joinAfter > 60)
  /\ last.joinAfter > 60
       \/ (~last.portal.opened /\ last.connected /\ last.tries = last.joinAfter)
  /\ ~last.portal.opened
       \/ /\ Len(deviceId) = 9
          /\ last.portal.apName = <<"B", "a", "r", "r", "i", "q", "u", "e", "-">> \o deviceId
          /\ last.portal.timeout = 180

RetryCalled == last.fn = "retryWiFiIfNeeded"

\* C23 as stated: retryWiFiIfNeeded is never executed in a wake cycle that ends in
\* deep sleep.
C23_RetryNeverBeforeSleep == (Running11x /\ Slept) => ~retriedThisCycle

\* C23, amended: retryWiFiIfNeeded is executed only while maintenanceMode is set (a
\* later fetch may still clear it and end the cycle in deep sleep); it changes nothing
\* while the link is connected; while disconnected it starts a reconnection only when
\* at least 60000 ms of the millisecond counter have passed since lastWifiRetryMs,
\* which it then sets to now; the provisioning portal belongs to setupWiFi, which is
\* called from setup() only.
C23_RetryInMaintenance ==
  /\ [][(Running11x /\ RetryCalled') =>
          /\ pc = "loop" /\ pc' = "check"
          /\ maintenanceMode /\ maintenanceMode'
          /\ last'.wifi => (~last'.started /\ lastWifiRetryMs' = lastWifiRetryMs)
          /\ last'.started =>
               /\ ~last'.wifi
               /\ ~LessW(SubU32(clock, lastWifiRetryMs), U32(60000))
               /\ lastWifiRetryMs' = clock
          /\ ~last'.started => lastWifiRetryMs' = lastWifiRetryMs]_vars
  /\ [][(Running11x /\ lastWifiRetryMs' # lastWifiRetryMs) =>
          \/ RetryCalled' /\ last'.started
          \/ pc \in {"timers", "asleep"}]_vars
  /\ [][(Running11x /\ WiFiCalled') => (pc = "wifi" /\ ~retriedThisCycle)]_vars

\* a reconnection started 60000 ms after the previous timestamp
C23_Witness ==
  /\ Running11x
  /\ RetryCalled
  /\ ~last.wifi
  /\ last.started
  /\ lastWifiRetryMs = clock
  /\ maintenanceMode
  /\ passes >= 1

\* a cycle in which retryWiFiIfNeeded ran and which ends in deep sleep
C23_HotChangeWitness == Running11x /\ Slept /\ retriedThisCycle /\ passes = 2

TestsDone == last.fn = "intervalTests"

\* C24: on the 32-bit wrapping millisecond counter, now - lastMeasureMs >= 10000 and
\* now - lastWifiRetryMs < 60000 follow the true time elapsed since the stored
\* timestamp, for every elapsed time below 2^32 ms, also when now has wrapped below it.
C24_IntervalTestsSurviveWrap ==
  TestsDone =>
    /\ last.due <=> ~LessW(last.elapsed, <<10000, 0>>)
    /\ last.started <=> ~LessW(last.elapsed, <<60000, 0>>)
    /\ last.due => lastMeasureMs = clock
    /\ last.started => lastWifiRetryMs = clock

\* the counter has wrapped: now is below the stored timestamp, 10000 ms after it
C24_Witness ==
  /\ TestsDone
  /\ LessW(clock, last.stored)
  /\ last.elapsed = <<10000, 0>>
  /\ last.due
  /\ ~last.started

\* the hardware id modulo 10^9 in nine decimal digits, for the ids of HardwareIds
NineDigitsOf(mac) ==
  CASE mac = <<58870, 50132, 41394, 0>> -> <<"1", "6", "1", "7", "6", "0", "2", "4", "6">>
    [] mac = <<65535, 65535, 65535, 65535>> -> <<"7", "0", "9", "5", "5", "1", "6", "1", "5">>
    [] mac = <<7, 0, 0, 0>> -> <<"0", "0", "0", "0", "0", "0", "0", "0", "7">>
    [] mac = <<51712, 15258, 0, 0>> -> <<"0", "0", "0", "0", "0", "0", "0", "0", "0">>

\* C25: deviceId is assigned once per boot, in setup() before any network operation,
\* and never modified afterwards; it is the 64-bit hardware id modulo 1,000,000,000 in
\* exactly 9 decimal digits, the same on every boot of the same chip.
C25_DeviceIdentity ==
  /\ [](IF pc = "entry" THEN deviceId = <<>>
        ELSE Len(deviceId) = 9 /\ deviceId = NineDigitsOf(efuseMac))
  /\ [][deviceId' # deviceId =>
          \/ pc = "entry" /\ deviceId = <<>> /\ trace = <<>> /\ last.fn = "boot"
          \/ pc = "asleep" /\ pc' = "entry" /\ deviceId' = <<>>]_vars
  /\ [][efuseMac' = efuseMac]_vars

\* the chip with hardware id 7 sleeps after a cycle made under the identity 000000007
C25_Witness ==
  /\ efuseMac = <<7, 0, 0, 0>>
  /\ deviceId = <<"0", "0", "0", "0", "0", "0", "0", "0", "7">>
  /\ Slept

\* the boot sequence of the README: start, Wi-Fi, update check, configuration,
\* measurement POST, deep sleep
ReadmeOrder ==
  <<"makeDeviceId9Digits", "setupWiFi", "checkForOTAUpdate", "checkConfigUpdate",
    "doOneMeasurement", "goToDeepSleep">>

\* C26: on boot the update check comes right after the Wi-Fi connection, before the
\* configuration retrieval and the measurement POST, and the cycle ends with deep sleep
\* after the measurement.
C26_ReadmeSequence == Running11x => IsPrefix(trace, ReadmeOrder)

ParseCalled == last.fn = "parseSemver"

\* C27: parseSemver gives missing components the value 0: a text with no dot yields
\* (major, 0, 0), a text with one dot (major, minor, 0), a fully dotted text its three
\* components; so "1" compares equal to "1.0.0" and "1.2" to "1.2.0".
C27_MissingComponentsAreZero ==
  ParseCalled =>
    /\ Len(last.comps) = 1 => last.out = <<last.comps[1], 0, 0>>
    /\ Len(last.comps) = 2 => last.out = <<last.comps[1], last.comps[2], 0>>
    /\ Len(last.comps) = 3 => last.out = last.comps
    /\ last.vsDotted = 0 /\ last.dottedVs = 0

\* "1.2" parsed, and compared with "1.2.0"
C27_Witness ==
  /\ ParseCalled
  /\ last.comps = <<1, 2>>
  /\ last.out = <<1, 2, 0>>
  /\ last.vsDotted = 0

\* "1" parsed, and compared with "1.0.0"
C27_WitnessNoDot ==
  /\ ParseCalled
  /\ last.comps = <<1>>
  /\ last.out = <<1, 0, 0>>
  /\ last.vsDotted = 0

\* C28: in the maintenance loop, once a configuration fetch has yielded
\* maintenance=false, no further measurement or configuration fetch is made, and the
\* next loop() call starts with goToDeepSleep, for 20000 ms if test is set and for
\* measureIntervalMs otherwise.
C28_HotChange ==
  /\ [][(Running11x /\ ~maintenanceMode /\ pc # "asleep") =>
          /\ last'.fn \in {"checkForOTAUpdate", "delay", "goToDeepSleep"}
          /\ ~maintenanceMode'
          /\ testMode' = testMode
          /\ measureIntervalMs' = measureIntervalMs]_vars
  /\ [][(Running11x /\ ~maintenanceMode /\ pc = "loop") =>
          /\ last'.fn = "goToDeepSleep"
          /\ last'.from = "loop"
          /\ last'.requestedMs = IF testMode THEN U32(20000) ELSE measureIntervalMs
          /\ pc' = "asleep"]_vars
  /\ [][(Running11x /\ pc = "loop_config" /\ ~maintenanceMode') =>
          (maintenanceMode /\ cfg'.result = "ok" /\ cfg'.doc.maintenance = "false"
           /\ pc' = "loop_ota")]_vars

\* the sleep that follows a hot change to normal mode
C28_Witness ==
  /\ Running11x
  /\ Slept
  /\ last.from = "loop"
  /\ passes = 2
  /\ ~testMode
  /\ cfg.doc.maintenance = "false"
  /\ cfg.doc.test = "false"
  /\ last.requestedMs = measureIntervalMs
  /\ cfg.doc.interval = 5
  /\ last.requestedMs = U32(5000)

\* C29: in v1.1.3 a deep sleep is armed only after a configuration fetch of the same
\* wake cycle that was transported and parsed and carried maintenance=false; a fetch
\* that fails (link down, connection refused, no JSON, parse error) leaves the device
\* in maintenance mode, from which goToDeepSleep is not called.
C29_SleepNeedsFetchedNormalMode ==
  /\ []((variant = "v113" /\ (pc = "asleep" \/ last.fn = "goToDeepSleep")) =>
          /\ cfg.result = "ok"
          /\ cfg.requested
          /\ cfg.doc # NoDoc
          /\ cfg.doc.maintenance = "false"
          /\ ~maintenanceMode)
  /\ [][(variant = "v113" /\ ConfigCalled' /\ cfg'.result \in FailureResults) =>
          (maintenanceMode' /\ cfg'.doc = NoDoc /\ pc' # "asleep")]_vars
  /\ [][(variant = "v113" /\ maintenanceMode /\ pc # "asleep") =>
          last'.fn # "goToDeepSleep"]_vars

\* v1.1.3 asleep from setup(), after a fetch that carried maintenance=false
C29_Witness ==
  /\ variant = "v113"
  /\ Slept
  /\ last.from = "setup"
  /\ cfg.result = "ok"
  /\ cfg.requested
  /\ cfg.doc.maintenance = "false"
  /\ passes = 0

\* a call of one of the three network operations made with the link down has opened
\* no connection and issued no request
NoRequestWithoutLink ==
  /\ (PostCalled /\ ~last.in.wifi) => (last.begins = 0 /\ last.posts = 0 /\ ~last.ok)
  /\ (ConfigCalled /\ ~last.wifi) => (cfg.result = "nowifi" /\ ~cfg.requested)
  /\ (OtaCalled /\ ~last.in.wifi) =>
       /\ last.out.result = "nowifi"
       /\ ~last.out.descriptorRequested
       /\ ~last.out.httpsBegun
       /\ ~last.out.getIssued
       /\ last.out.updBegins = 0
       /\ ~last.out.restart

\* the wake cycle of a device that has not had a link so far: no request has been
\* issued, maintenance mode is on, the chip is neither suspended nor restarted
NeverLinkedSoFar ==
  /\ pc \notin {"asleep", "restarted"}
  /\ maintenanceMode
  /\ cfg.result \in {"none", "nowifi"}
  /\ ~cfg.requested
  /\ postsSinceFetch = 0
  /\ WiFiCalled => ~last.connected
  /\ PostCalled => (~last.in.wifi /\ last.begins = 0)
  /\ ConfigCalled => ~last.wifi
  /\ OtaCalled => (~last.in.wifi /\ ~last.out.descriptorRequested)

\* C30: while Wi-Fi is not connected, postMeasurement, checkConfigUpdate and
\* checkForOTAUpdate each return before issuing any request; a device that never
\* obtains a link issues no request at all and stays in the maintenance loop, never
\* suspending.
C30_NoLinkNoRequest ==
  /\ [](Running11x => NoRequestWithoutLink)
  /\ []((Running11x /\ ~linkSeen) => NeverLinkedSoFar)
  /\ [][(Running11x /\ ~linkSeen /\ pc = "loop") =>
          (last'.fn = "retryWiFiIfNeeded" /\ pc' = "check")]_vars

\* second pass of the maintenance loop of a device that has had no link since boot
C30_Witness ==
  /\ Running11x
  /\ ~linkSeen
  /\ OtaCalled
  /\ last.from = "loop"
  /\ last.out.result = "nowifi"
  /\ cfg.result = "nowifi"
  /\ retriedThisCycle
  /\ passes = 1

\* outcomes of checkForOTAUpdate on the paths that have called Update.begin
BeginReached == {"updbeginfail", "short", "endfail", "unfinished", "applied"}

\* C31: Update.begin is reached only after the download answered HTTP 200 with a
\* declared content length strictly greater than 0, and the transaction it opens is
\* sized to exactly that length; it is never reached with a length <= 0 or after a
\* non-200 answer.
C31_BeginOnlyWithDeclaredSize ==
  OtaCalled =>
    /\ last.out.result \in BeginReached =>
         (last.out.getIssued /\ last.in.httpCode = 200 /\ last.in.size > 0)
    /\ last.out.updBegins = 1 <=> last.out.result \in (BeginReached \ {"updbeginfail"})
    /\ last.out.updBegins = 1 => (last.out.beginSize = last.in.size /\ last.out.beginSize > 0)
    /\ last.out.updBegins \in {0, 1}
    /\ (last.out.getIssued /\ (last.in.httpCode # 200 \/ last.in.size <= 0)) =>
         (last.out.updBegins = 0 /\ last.out.result \in {"httperr", "badsize"}
          /\ last.out.written = 0 /\ ~last.out.finalized)

\* a transaction opened for the 3 bytes the download declared
C31_Witness ==
  /\ OtaCalled
  /\ last.in.httpCode = 200
  /\ last.in.size = 3
  /\ last.out.updBegins = 1
  /\ last.out.beginSize = 3
  /\ last.out.result = "applied"

\* a download that declares no length: no transaction
C31_WitnessNoLength ==
  /\ OtaCalled
  /\ last.in.size = 0
  /\ last.out.result = "badsize"
  /\ last.out.updBegins = 0

\* C32: every update transaction opened by Update.begin in checkForOTAUpdate is
\* closed by exactly one Update.end before the function returns or restarts the chip,
\* and the HTTP session begun for the image download is ended on every exit path.
C32_NothingLeftOpen ==
  (Running11x /\ OtaCalled) =>
    /\ last.out.updEnds = last.out.updBegins
    /\ last.out.updBegins \in {0, 1}
    /\ last.out.httpsEnds = IF last.out.httpsBegun THEN 1 ELSE 0
    /\ last.out.httpsBegun <=> last.out.getIssued
    /\ last.out.restart => (last.out.updEnds = 1 /\ last.out.httpsEnds = 1)
    /\ last.out.result = "beginfail" => ~last.out.httpsBegun

\* Update.begin refused the image: no transaction, the download session ended
C32_Witness ==
  /\ Running11x
  /\ OtaCalled
  /\ last.out.result = "updbeginfail"
  /\ last.out.httpsBegun
  /\ last.out.httpsEnds = 1
  /\ last.out.updBegins = 0
  /\ last.out.updEnds = 0

\* a short write: the transaction is closed and the session ended before the return
C32_WitnessShort ==
  /\ Running11x
  /\ OtaCalled
  /\ last.out.result = "short"
  /\ last.out.updBegins = 1
  /\ last.out.updEnds = 1
  /\ last.out.httpsEnds = 1

\* the configuration a response resolves to, whatever was received before it
ResolvedFrom(c) ==
  IF c.result = "ok"
  THEN Globals(IntervalMs(c.doc), JsonBoolOr(c.doc.maintenance, TRUE), JsonBoolOr(c.doc.test, FALSE))
  ELSE Globals(DefaultMs, TRUE, FALSE)

\* C33: the mode decision of a wake cycle depends only on that cycle's connectivity
\* and configuration response: the mode, and the sleep requested and armed, are those
\* the latest response of the cycle resolves to, and nothing of a cycle survives the
\* suspension, so that runs that differ only in earlier cycles decide alike.
C33_DecisionFromThisCycleOnly ==
  /\ []((Running11x /\ cfg.result # "none") =>
          Globals(measureIntervalMs, maintenanceMode, testMode) = ResolvedFrom(cfg))
  /\ []((Running11x /\ Slept) =>
          /\ ~ResolvedFrom(cfg).maintenanceMode
          /\ last.requestedMs = IF ResolvedFrom(cfg).testMode THEN U32(20000)
                                ELSE ResolvedFrom(cfg).measureIntervalMs
          /\ last.sleepUs = Micros(MaxW(last.requestedMs, U32(5000))))
  /\ [][(Running11x /\ pc = "decide") =>
          ((pc' = "asleep") <=> ~ResolvedFrom(cfg).maintenanceMode)]_vars
  /\ [][pc = "asleep" =>
          /\ cfg' = NoCfg
          /\ Globals(measureIntervalMs', maintenanceMode', testMode') = Globals(DefaultMs, TRUE, FALSE)
          /\ lastMeasureMs' = U32(0) /\ lastWifiRetryMs' = U32(0)
          /\ postsSinceFetch' = 0 /\ deviceId' = <<>>]_vars

\* asleep in normal mode in the loop, after a boot that had resolved to test mode
C33_Witness ==
  /\ Running11x
  /\ Slept
  /\ last.from = "loop"
  /\ cfg.doc = ConfigDoc(1, "false", "absent")
  /\ ~testMode
  /\ last.requestedMs = U32(1000)
  /\ last.sleepUs = Micros(U32(5000))

\* C34: in the maintenance loop each fired iteration measures, then fetches the
\* configuration, then checks for an update; an iteration fires only when at least
\* 10000 ms of the millisecond counter have passed since the previous one (since the
\* end of setup for the first); and fired iterations recur for as long as the
\* fetches keep maintenance mode and no update restarts the chip.
C34_MaintenanceLoop ==
  /\ [][/\ pc = "loop_measure" => (PostCalled' /\ pc' = "loop_config")
        /\ pc = "loop_config" => (ConfigCalled' /\ pc' = "loop_ota")
        /\ pc = "loop_ota" => (OtaCalled' /\ last'.from = "loop"
                               /\ pc' \in {"delay", "restarted"})
        /\ pc' = "loop_measure" => pc = "check"]_vars
  /\ [][pc = "check" =>
          /\ (pc' = "loop_measure") <=> ~LessW(SubU32(clock, lastMeasureMs), U32(10000))
          /\ (pc' = "delay") <=> LessW(SubU32(clock, lastMeasureMs), U32(10000))
          /\ lastMeasureMs' = IF pc' = "loop_measure" THEN clock ELSE lastMeasureMs]_vars
  /\ [][lastMeasureMs' # lastMeasureMs => (pc = "check" /\ pc' = "loop_measure")]_vars
  /\ (pc = "loop" /\ maintenanceMode) ~>
       (pc = "loop_measure" \/ ~maintenanceMode \/ RestartedByUpdate)

\* the second fired iteration, 2^30 ms after the first
C34_Witness ==
  /\ pc = "loop_config"
  /\ PostCalled
  /\ maintenanceMode
  /\ cfg.result = "ok"
  /\ lastMeasureMs = clock
  /\ clock = AddW(AddW(U32(1000), LongWait), LongWait)

\* the pass that follows setup at once: nothing is due yet
C34_WitnessNotDue ==
  /\ pc = "delay"
  /\ last.fn = "loopCheck"
  /\ ~last.due
  /\ clock = lastMeasureMs
  /\ cfg.result = "nowifi"

\* C35: in v1.0.8 every deep sleep armed by maybeDeepSleep lasts at least 5000 ms,
\* whatever measure_interval_s the server delivered (1 to 4 seconds included).
C35_Sleep108Floor ==
  (variant = "v108" /\ last.fn = "maybeDeepSleep") =>
    ~LessW(last.sleepUs, Micros(U32(5000)))

\* the ways a fetch of v1.0.3 fails
Failed103 == {"nowifi", "connectfail", "httperr", "nojson", "parseerr"}

\* C36: in v1.0.3 a configuration fetch that fails (no link, begin failure, status
\* other than 200, no braces, parse error) leaves measureIntervalMs and
\* maintenanceMode as they were before the call; a fetch that succeeds changes
\* measureIntervalMs only when measure_interval_sec > 0, and the interval it then
\* stores lies between 5 s and 30 days.
C36_FailedFetchKeeps ==
  (variant = "v103" /\ ConfigCalled) =>
    /\ cfg.result \in Failed103 \cup {"ok"}
    /\ cfg.result \in Failed103 =>
         /\ measureIntervalMs = last.before.measureIntervalMs
         /\ maintenanceMode = last.before.maintenanceMode
    /\ (cfg.result = "ok" /\ measureIntervalMs # last.before.measureIntervalMs) =>
         (cfg.doc.interval # Absent /\ cfg.doc.interval > 0)
    /\ (cfg.result = "ok" /\ cfg.doc.interval # Absent /\ cfg.doc.interval > 0) =>
         /\ ~LessW(measureIntervalMs, U32(5000))
         /\ ~LessW(MulU32(U32(MaxIntervalSec), 1000), measureIntervalMs)
         /\ measureIntervalMs = MulU32(U32(ClampSec(cfg.doc.interval)), 1000)

\* a fetch of the loop fails after the fetch of setup set 10 s and maintenance
C36_Witness ==
  /\ variant = "v103"
  /\ ConfigCalled
  /\ pc = "loop_ota"
  /\ cfg.result = "httperr"
  /\ measureIntervalMs = U32(10000)
  /\ maintenanceMode
  /\ last.before = Globals(U32(10000), TRUE, FALSE)

\* 2592001 s served: stored as 30 days
C36_WitnessClamped ==
  /\ variant = "v103"
  /\ ConfigCalled
  /\ cfg.result = "ok"
  /\ cfg.doc.interval = 2592001
  /\ measureIntervalMs = MulU32(U32(2592000), 1000)

\* a negative value served: the interval of the earlier fetch stays
C36_WitnessNotPositive ==
  /\ variant = "v103"
  /\ ConfigCalled
  /\ cfg.result = "ok"
  /\ cfg.doc.interval = -3
  /\ last.before.measureIntervalMs = U32(10000)
  /\ measureIntervalMs = U32(10000)

====
